---- MODULE Spec2Model ----
(***************************************************************************)
(* Deal ingestion, state reconciliation and notification fan-out of the    *)
(* amaSnag bot (src/main.py).                                              *)
(*                                                                         *)
(* The bot is one asyncio process.  Store calls (psycopg2) are synchronous *)
(* and a coroutine runs without interruption from one `await` to the next, *)
(* so each action below is one such segment: it begins when an awaited     *)
(* call (page load, Telegram send, sleep) resolves and ends at the next    *)
(* awaited call.  Variables whose name starts with g are history           *)
(* variables: they record what happened and are never read by an action.   *)
(*                                                                         *)
(* Spec and SpecRuns let runs and /url commands overlap on pages of one    *)
(* item.  SpecBatch is the first scheduled run alone, on a page of both    *)
(* items whose cards may lack a title and whose store calls may raise.     *)
(* SpecPrice is a sequence of scheduled runs on cards that show a price.   *)
(* SpecBadge and SpecTitles are the first scheduled run on cards whose     *)
(* price span and title carry text; SpecFair is that run with failures and *)
(* weak fairness of its steps.  SpecRegistry is the registry commands of   *)
(* the users, SpecStore the connections the store calls open and close.    *)
(* SpecUrl is the /url commands alone, SpecAdmin the admin-only commands   *)
(* sent by admins and by others, SpecPaging the /mydeals listing.          *)
(***************************************************************************)
EXTENDS Integers, Sequences, FiniteSets, TLC

\* ---------------------------------------------------------------- bounds
\* pipeline runs (post_deals) started, /url commands issued, cards per page
MaxRuns == 2
MaxUrls == 1
MaxCards == 1
\* cards on a page of SpecBatch, of SpecPrice
MaxBatch == 2
MaxPriceCards == 1
\* cards on a page of SpecBadge
MaxBadgeCards == 2
\* words in a title of SpecTitles
MaxWords == 2
\* registry commands handled in SpecRegistry
MaxCommands == 3
\* store calls made in SpecStore
MaxCalls == 3
\* items a user tracks in SpecPaging, items the other user tracks
MaxTracked == 11
MaxOthers == 1

Items == {"B1", "B2"}
Users == {"u1", "u2"}
DiscountValues == {20, 35}
PageDiscounts == DiscountValues \cup {0}
MinDiscountValues == {30}
\* the users who may have sent /setdiscount, /alertme before the first run
PrefUsers == {"u2"}
AlertUsers == {"u1"}

\* The scheduled job and the /post handler both run post_deals.  The
\* scheduler keeps one instance of its job at a time and the Application
\* built in main handles one update at a time, so a /post and a /url never
\* overlap each other (variable handler), but each overlaps the scheduled run.
Runs == {"sched", "manual"}
NoProc == "none"

\* --------------------------------------------------------------- strings
\* A Python str is the sequence of its characters.
UpperToLower ==
  [c \in {"A", "B", "C", "D", "E", "F", "G", "H", "I", "J", "K", "L", "M",
          "N", "O", "P", "Q", "R", "S", "T", "U", "V", "W", "X", "Y", "Z"} |->
     CASE c = "A" -> "a" [] c = "B" -> "b" [] c = "C" -> "c" [] c = "D" -> "d"
       [] c = "E" -> "e" [] c = "F" -> "f" [] c = "G" -> "g" [] c = "H" -> "h"
       [] c = "I" -> "i" [] c = "J" -> "j" [] c = "K" -> "k" [] c = "L" -> "l"
       [] c = "M" -> "m" [] c = "N" -> "n" [] c = "O" -> "o" [] c = "P" -> "p"
       [] c = "Q" -> "q" [] c = "R" -> "r" [] c = "S" -> "s" [] c = "T" -> "t"
       [] c = "U" -> "u" [] c = "V" -> "v" [] c = "W" -> "w" [] c = "X" -> "x"
       [] c = "Y" -> "y" [] c = "Z" -> "z"]

\* str.lower()
Lower(s) ==
  [i \in 1..Len(s) |-> IF s[i] \in DOMAIN UpperToLower THEN UpperToLower[s[i]] ELSE s[i]]

\* `w in t` on two str
IsSubstring(w, t) ==
  \E i \in 0..(Len(t) - Len(w)) : SubSeq(t, i + 1, i + Len(w)) = w

CATEGORIES ==
  <<
    [category |-> <<"L", "a", "p", "t", "o", "p", "s">>,
     keywords |-> << <<"l", "a", "p", "t", "o", "p">>,
                   <<"n", "o", "t", "e", "b", "o", "o", "k">>,
                   <<"m", "a", "c", "b", "o", "o", "k">>,
                   <<"c", "h", "r", "o", "m", "e", "b", "o", "o", "k">> >>],
    [category |-> <<"S", "m", "a", "r", "t", "p", "h", "o", "n", "e", "s">>,
     keywords |-> << <<"p", "h", "o", "n", "e">>,
                   <<"s", "m", "a", "r", "t", "p", "h", "o", "n", "e">>,
                   <<"g", "a", "l", "a", "x", "y">>,
                   <<"i", "p", "h", "o", "n", "e">>,
                   <<"p", "i", "x", "e", "l">>,
                   <<"r", "e", "d", "m", "i">>,
                   <<"o", "n", "e", "p", "l", "u", "s">> >>],
    [category |-> <<"A", "u", "d", "i", "o">>,
     keywords |-> << <<"h", "e", "a", "d", "p", "h", "o", "n", "e">>,
                   <<"e", "a", "r", "b", "u", "d", "s">>,
                   <<"a", "i", "r", "p", "o", "d", "s">>,
                   <<"e", "a", "r", "p", "h", "o", "n", "e">>,
                   <<"s", "p", "e", "a", "k", "e", "r">>,
                   <<"s", "o", "u", "n", "d", "b", "a", "r">>,
                   <<"j", "b", "l">>,
                   <<"s", "o", "n", "y">>,
                   <<"b", "o", "s", "e">> >>],
    [category |-> <<"E", "l", "e", "c", "t", "r", "o", "n", "i", "c", "s">>,
     keywords |-> << <<"t", "v">>,
                   <<"t", "e", "l", "e", "v", "i", "s", "i", "o", "n">>,
                   <<"m", "o", "n", "i", "t", "o", "r">>,
                   <<"c", "a", "m", "e", "r", "a">>,
                   <<"d", "s", "l", "r">>,
                   <<"p", "r", "o", "j", "e", "c", "t", "o", "r">>,
                   <<"k", "i", "n", "d", "l", "e">>,
                   <<"s", "m", "a", "r", "t", " ", "h", "o", "m", "e">>,
                   <<"s", "m", "a", "r", "t", "w", "a", "t", "c", "h">> >>],
    [category |-> <<"W", "a", "t", "c", "h", "e", "s">>,
     keywords |-> << <<"w", "a", "t", "c", "h">>,
                   <<"s", "m", "a", "r", "t", "w", "a", "t", "c", "h">>,
                   <<"f", "i", "t", "b", "i", "t">>,
                   <<"g", "a", "r", "m", "i", "n">> >>],
    [category |-> <<"H", "o", "m", "e", " ", "&", " ", "K", "i", "t", "c", "h", "e", "n">>,
     keywords |-> << <<"k", "i", "t", "c", "h", "e", "n">>,
                   <<"c", "o", "o", "k", "w", "a", "r", "e">>,
                   <<"m", "i", "x", "e", "r">>,
                   <<"g", "r", "i", "n", "d", "e", "r">>,
                   <<"p", "u", "r", "i", "f", "i", "e", "r">>,
                   <<"v", "a", "c", "u", "u", "m">>,
                   <<"c", "l", "e", "a", "n", "e", "r">>,
                   <<"f", "r", "i", "d", "g", "e">>,
                   <<"m", "i", "c", "r", "o", "w", "a", "v", "e">>,
                   <<"b", "l", "e", "n", "d", "e", "r">>,
                   <<"t", "o", "a", "s", "t", "e", "r">>,
                   <<"c", "o", "f", "f", "e", "e", " ", "m", "a", "k", "e", "r">>,
                   <<"a", "i", "r", " ", "f", "r", "y", "e", "r">>,
                   <<"i", "r", "o", "n">>,
                   <<"w", "a", "s", "h", "i", "n", "g", " ", "m", "a", "c", "h", "i", "n", "e">>,
                   <<"d", "i", "s", "h", "w", "a", "s", "h", "e", "r">> >>],
    [category |-> <<"F", "a", "s", "h", "i", "o", "n">>,
     keywords |-> << <<"s", "h", "i", "r", "t">>,
                   <<"t", "-", "s", "h", "i", "r", "t">>,
                   <<"j", "e", "a", "n", "s">>,
                   <<"t", "r", "o", "u", "s", "e", "r", "s">>,
                   <<"s", "a", "r", "e", "e">>,
                   <<"k", "u", "r", "t", "a">>,
                   <<"d", "r", "e", "s", "s">>,
                   <<"s", "h", "o", "e", "s">>,
                   <<"s", "n", "e", "a", "k", "e", "r">>,
                   <<"s", "a", "n", "d", "a", "l", "s">>,
                   <<"h", "e", "e", "l", "s">>,
                   <<"b", "o", "o", "t", "s">>,
                   <<"a", "p", "p", "a", "r", "e", "l">>,
                   <<"c", "l", "o", "t", "h", "i", "n", "g">>,
                   <<"f", "o", "o", "t", "w", "e", "a", "r">>,
                   <<"b", "a", "g">>,
                   <<"w", "a", "l", "l", "e", "t">>,
                   <<"s", "u", "n", "g", "l", "a", "s", "s", "e", "s">>,
                   <<"j", "e", "w", "e", "l", "l", "e", "r", "y">> >>],
    [category |-> <<"F", "o", "o", "t", "w", "e", "a", "r">>,
     keywords |-> << <<"s", "h", "o", "e", "s">>,
                   <<"s", "n", "e", "a", "k", "e", "r">>,
                   <<"s", "a", "n", "d", "a", "l", "s">>,
                   <<"h", "e", "e", "l", "s">>,
                   <<"b", "o", "o", "t", "s">> >>],
    [category |-> <<"B", "o", "o", "k", "s">>,
     keywords |-> << <<"b", "o", "o", "k">>,
                   <<"n", "o", "v", "e", "l">>,
                   <<"a", "u", "t", "h", "o", "r">>,
                   <<"m", "a", "g", "a", "z", "i", "n", "e">>,
                   <<"e", "b", "o", "o", "k">> >>],
    [category |-> <<"G", "a", "m", "i", "n", "g">>,
     keywords |-> << <<"g", "a", "m", "i", "n", "g">>,
                   <<"c", "o", "n", "s", "o", "l", "e">>,
                   <<"p", "l", "a", "y", "s", "t", "a", "t", "i", "o", "n">>,
                   <<"x", "b", "o", "x">>,
                   <<"n", "i", "n", "t", "e", "n", "d", "o">>,
                   <<"g", "a", "m", "e">>,
                   <<"c", "o", "n", "t", "r", "o", "l", "l", "e", "r">>,
                   <<"h", "e", "a", "d", "s", "e", "t">> >>],
    [category |-> <<"H", "e", "a", "l", "t", "h", " ", "&", " ", "P", "e", "r", "s", "o", "n", "a", "l", " ", "C", "a", "r", "e">>,
     keywords |-> << <<"h", "e", "a", "l", "t", "h">>,
                   <<"p", "e", "r", "s", "o", "n", "a", "l", " ", "c", "a", "r", "e">>,
                   <<"g", "r", "o", "o", "m", "i", "n", "g">>,
                   <<"b", "e", "a", "u", "t", "y">>,
                   <<"f", "i", "t", "n", "e", "s", "s">>,
                   <<"s", "u", "p", "p", "l", "e", "m", "e", "n", "t", "s">>,
                   <<"p", "r", "o", "t", "e", "i", "n">>,
                   <<"s", "h", "a", "m", "p", "o", "o">>,
                   <<"c", "o", "n", "d", "i", "t", "i", "o", "n", "e", "r">>,
                   <<"l", "o", "t", "i", "o", "n">>,
                   <<"m", "a", "k", "e", "u", "p">>,
                   <<"p", "e", "r", "f", "u", "m", "e">> >>],
    [category |-> <<"S", "p", "o", "r", "t", "s", " ", "&", " ", "O", "u", "t", "d", "o", "o", "r", "s">>,
     keywords |-> << <<"s", "p", "o", "r", "t", "s">>,
                   <<"o", "u", "t", "d", "o", "o", "r">>,
                   <<"c", "a", "m", "p", "i", "n", "g">>,
                   <<"c", "y", "c", "l", "i", "n", "g">>,
                   <<"r", "u", "n", "n", "i", "n", "g">>,
                   <<"y", "o", "g", "a">>,
                   <<"g", "y", "m">>,
                   <<"t", "r", "e", "k", "k", "i", "n", "g">>,
                   <<"h", "i", "k", "i", "n", "g">>,
                   <<"f", "i", "s", "h", "i", "n", "g">>,
                   <<"t", "e", "n", "t">>,
                   <<"s", "l", "e", "e", "p", "i", "n", "g", " ", "b", "a", "g">> >>],
    [category |-> <<"T", "o", "y", "s", " ", "&", " ", "G", "a", "m", "e", "s">>,
     keywords |-> << <<"t", "o", "y">>,
                   <<"d", "o", "l", "l">>,
                   <<"a", "c", "t", "i", "o", "n", " ", "f", "i", "g", "u", "r", "e">>,
                   <<"b", "o", "a", "r", "d", " ", "g", "a", "m", "e">>,
                   <<"p", "u", "z", "z", "l", "e">>,
                   <<"l", "e", "g", "o">>,
                   <<"p", "l", "a", "y", "-", "d", "o", "h">>,
                   <<"b", "a", "r", "b", "i", "e">> >>],
    [category |-> <<"A", "u", "t", "o", "m", "o", "t", "i", "v", "e">>,
     keywords |-> << <<"c", "a", "r">>,
                   <<"b", "i", "k", "e">>,
                   <<"m", "o", "t", "o", "r", "c", "y", "c", "l", "e">>,
                   <<"t", "y", "r", "e">>,
                   <<"h", "e", "l", "m", "e", "t">>,
                   <<"a", "c", "c", "e", "s", "s", "o", "r", "i", "e", "s">>,
                   <<"p", "a", "r", "t", "s">> >>],
    [category |-> <<"O", "f", "f", "i", "c", "e", " ", "P", "r", "o", "d", "u", "c", "t", "s">>,
     keywords |-> << <<"o", "f", "f", "i", "c", "e">>,
                   <<"s", "t", "a", "t", "i", "o", "n", "e", "r", "y">>,
                   <<"p", "e", "n">>,
                   <<"n", "o", "t", "e", "b", "o", "o", "k">>,
                   <<"p", "a", "p", "e", "r">>,
                   <<"p", "r", "i", "n", "t", "e", "r">>,
                   <<"s", "c", "a", "n", "n", "e", "r">>,
                   <<"s", "h", "r", "e", "d", "d", "e", "r">>,
                   <<"d", "e", "s", "k">>,
                   <<"c", "h", "a", "i", "r">> >>],
    [category |-> <<"P", "e", "t", " ", "S", "u", "p", "p", "l", "i", "e", "s">>,
     keywords |-> << <<"p", "e", "t">>,
                   <<"d", "o", "g">>,
                   <<"c", "a", "t">>,
                   <<"f", "o", "o", "d">>,
                   <<"t", "r", "e", "a", "t", "s">>,
                   <<"t", "o", "y", "s">>,
                   <<"b", "e", "d">>,
                   <<"c", "o", "l", "l", "a", "r">>,
                   <<"l", "e", "a", "s", "h">> >>],
    [category |-> <<"B", "a", "b", "y", " ", "P", "r", "o", "d", "u", "c", "t", "s">>,
     keywords |-> << <<"b", "a", "b", "y">>,
                   <<"d", "i", "a", "p", "e", "r">>,
                   <<"w", "i", "p", "e", "s">>,
                   <<"f", "o", "r", "m", "u", "l", "a">>,
                   <<"s", "t", "r", "o", "l", "l", "e", "r">>,
                   <<"c", "a", "r", " ", "s", "e", "a", "t">>,
                   <<"c", "r", "i", "b">>,
                   <<"b", "a", "b", "y", " ", "f", "o", "o", "d">> >>],
    [category |-> <<"G", "r", "o", "c", "e", "r", "i", "e", "s">>,
     keywords |-> << <<"g", "r", "o", "c", "e", "r", "y">>,
                   <<"f", "o", "o", "d">>,
                   <<"s", "n", "a", "c", "k">>,
                   <<"b", "e", "v", "e", "r", "a", "g", "e">>,
                   <<"t", "e", "a">>,
                   <<"c", "o", "f", "f", "e", "e">>,
                   <<"s", "p", "i", "c", "e", "s">>,
                   <<"o", "i", "l">>,
                   <<"f", "l", "o", "u", "r">>,
                   <<"r", "i", "c", "e">>,
                   <<"d", "a", "l">> >>]
  >>

DefaultCategory == <<"D", "e", "a", "l", "s">>

RECURSIVE first_category(_, _)
first_category(i, title_lower) ==
  IF i > Len(CATEGORIES) THEN DefaultCategory
  ELSE IF \E k \in 1..Len(CATEGORIES[i].keywords) :
            IsSubstring(CATEGORIES[i].keywords[k], title_lower)
       THEN CATEGORIES[i].category
       ELSE first_category(i + 1, title_lower)

\* get_category returning the last category of the table that matches
RECURSIVE last_category(_, _)
last_category(i, title_lower) ==
  IF i < 1 THEN DefaultCategory
  ELSE IF \E k \in 1..Len(CATEGORIES[i].keywords) :
            IsSubstring(CATEGORIES[i].keywords[k], title_lower)
       THEN CATEGORIES[i].category
       ELSE last_category(i - 1, title_lower)
get_category_last(title) == last_category(Len(CATEGORIES), Lower(title))

\* lines 315-320
get_category(title) == first_category(1, Lower(title))

\* the title each product page shows
Title(asin) ==
  IF asin = "B1" THEN <<"D", "e", "l", "l", " ", "L", "a", "p", "t", "o", "p">>
  ELSE <<"R", "u", "n", "n", "i", "n", "g", " ", "S", "h", "o", "e", "s">>

\* str.strip() as get_text(strip=True) applies it: blanks at both ends go
RECURSIVE lstrip(_)
lstrip(s) == IF s # <<>> /\ Head(s) = " " THEN lstrip(Tail(s)) ELSE s
RECURSIVE rstrip(_)
rstrip(s) == IF s # <<>> /\ s[Len(s)] = " " THEN rstrip(SubSeq(s, 1, Len(s) - 1)) ELSE s
get_text(s) == rstrip(lstrip(s))

\* the title a card has until a title span is found (line 359)
NoTitleFound == <<"N", "o", " ", "T", "i", "t", "l", "e", " ", "F", "o", "u", "n", "d">>

\* the words the titles of SpecTitles are made of
Words ==
  { <<"D", "e", "l", "l">>,
    <<"N", "o", "t", "e", "b", "o", "o", "k">>,
    <<"P", "e", "n">>,
    <<"S", "m", "a", "r", "t">>,
    <<"H", "o", "m", "e">>,
    <<"C", "a", "r", "p", "e", "t">>,
    <<"S", "H", "O", "E", "S">> }

\* ' '.join(words)
RECURSIVE join(_)
join(words) ==
  IF words = <<>> THEN <<>>
  ELSE IF Len(words) = 1 THEN words[1]
  ELSE words[1] \o <<" ">> \o join(Tail(words))

\* titles of up to MaxWords words
TitleTexts == {join(ws) : ws \in UNION {[1..n -> Words] : n \in 1..MaxWords}}

\* get_category reads its argument and the table only: the category of
\* every title a card may show, computed once
ShownTitles == {Title(x) : x \in Items} \cup TitleTexts \cup {NoTitleFound, <<>>}
category_of == [title \in ShownTitles |-> get_category(title)]

\* keywords users subscribe to with /alertme (stored lower-cased)
KeywordValues ==
  { <<"l", "a", "p", "t", "o", "p">>,
    <<"l", "a", "p", "t", "o", "p", "s">> }

\* all orders in which a SELECT without ORDER BY may return the rows S
Orders(S) ==
  {s \in [1..Cardinality(S) -> S] : \A i, j \in 1..Cardinality(S) : i # j => s[i] # s[j]}

\* ----------------------------------------------------------------- state
VARIABLES
  deals,             \* table deals: asin -> discount (no row: asin not in DOMAIN)
  user_tracking,     \* table user_tracking: set of <<user_id, asin>>
  user_preferences,  \* table user_preferences: user_id -> min_discount
  user_notified,     \* table user_notified: set of <<user_id, asin>>
  keyword_alerts,    \* table keyword_alerts: set of <<user_id, keyword>>
  price_history,     \* table price_history: asin -> prices, most recent first
  pc,                \* per run of post_deals: the await it is suspended at
  queue,             \* per run: the deals scrape_deals returned, not yet posted
  todo,              \* per run: rows of the recipient list not yet visited
  cur,               \* per run: the row whose personal message is being sent
  badge,             \* per run: the price badge of the message being sent
  upc,               \* /url handler: the await it is suspended at
  udeal,             \* /url handler: the scraped deal
  ubadge,            \* /url handler: the price badge of its message
  handler,           \* the update the dispatcher is processing
  runs,              \* runs of post_deals started
  urls,              \* /url commands issued
  reply,             \* the answer of the registry command handled last
  cmds,              \* registry commands handled
  conns,             \* connections to the database that are open
  call,              \* the store function being called and how far it got
  ncalls,            \* store calls started
  gRecorded,         \* per asin: highest discount ever passed to is_new_or_updated_deal (0: none)
  gNew,              \* per asin: how often is_new_or_updated_deal inserted the row
  gClass,            \* per asin: outcome of the is_new_or_updated_deal call of the step just taken
  gLoad,             \* the run whose page load raised in the step just taken
  gSince,            \* per user, asin: personal messages delivered since the last insert/improvement
  gPre,              \* per asin: users whose record predates the last insert/improvement
  gLast,             \* per user, asin: discount in the last personal message delivered (0: none)
  gOwed,             \* per asin: users notified before the last improvement who still qualify
  gImpBy,            \* per asin: who recorded the last insert/improvement
  gSent,             \* per asin: users who got a personal message since the records were last cleared
  gFail,             \* per run: what failed last (store call, channel or personal send)
  gOwing,            \* per run: deals classified New or Improved whose channel send was not attempted yet
  gPage,             \* per run: the page whose reconciling a store call aborted
  gBad,              \* per run: the card of gPage whose store call raised (0: none)
  gChan,             \* per asin, discount: channel posts of post_deals
  gUser              \* per user, asin, discount: personal messages delivered

storeVars == <<deals, user_tracking, user_preferences, user_notified, keyword_alerts,
               price_history>>
runVars == <<pc, queue, todo, cur, badge, runs>>
urlVars == <<upc, udeal, ubadge, urls>>
histVars == <<gRecorded, gNew, gSince, gPre, gLast, gOwed, gImpBy, gSent, gFail, gChan, gUser,
              gOwing, gPage, gBad>>
cmdVars == <<reply, cmds>>
connVars == <<conns, call, ncalls>>
vars == <<storeVars, runVars, urlVars, handler, histVars, gClass, gLoad, cmdVars, connVars>>

Max(a, b) == IF a > b THEN a ELSE b
\* history counters stop at 2: the claims only tell 0, 1 and more than 1 apart
Inc(n) == IF n >= 2 THEN n ELSE n + 1

\* ------------------------------------------------------ store operations
DefaultMinDiscount == 5

Put(rows, key, value) ==
  [k \in DOMAIN rows \cup {key} |-> IF k = key THEN value ELSE rows[k]]

\* is_new_or_updated_deal with `discount >= row[0]` on line 129
is_new_or_updated_deal_ge(rows, asin, discount) ==
  IF asin \notin DOMAIN rows
  THEN [deals |-> Put(rows, asin, discount), class |-> "New"]
  ELSE IF discount >= rows[asin]
       THEN [deals |-> Put(rows, asin, discount), class |-> "Improved"]
       ELSE [deals |-> rows, class |-> "Unchanged"]

\* is_new_or_updated_deal with `discount != row[0]` on line 129
is_new_or_updated_deal_ne(rows, asin, discount) ==
  IF asin \notin DOMAIN rows
  THEN [deals |-> Put(rows, asin, discount), class |-> "New"]
  ELSE IF discount # rows[asin]
       THEN [deals |-> Put(rows, asin, discount), class |-> "Improved"]
       ELSE [deals |-> rows, class |-> "Unchanged"]

\* is_new_or_updated_deal without the INSERT of line 127
is_new_or_updated_deal_noinsert(rows, asin, discount) ==
  IF asin \notin DOMAIN rows
  THEN [deals |-> rows, class |-> "New"]
  ELSE IF discount > rows[asin]
       THEN [deals |-> Put(rows, asin, discount), class |-> "Improved"]
       ELSE [deals |-> rows, class |-> "Unchanged"]

\* is_new_or_updated_deal: the rows of deals after the call and the branch taken;
\* notify_users is TRUE on "New" and "Improved"
is_new_or_updated_deal(rows, asin, discount) ==
  IF asin \notin DOMAIN rows
  THEN [deals |-> Put(rows, asin, discount), class |-> "New"]
  ELSE IF discount > rows[asin]
       THEN [deals |-> Put(rows, asin, discount), class |-> "Improved"]
       ELSE [deals |-> rows, class |-> "Unchanged"]

get_users_tracking_asin(tracking, asin) == {u \in Users : <<u, asin>> \in tracking}

get_user_min_discount(prefs, user_id) ==
  IF user_id \in DOMAIN prefs THEN prefs[user_id] ELSE DefaultMinDiscount

mark_user_notified(notified, user_id, asin) == notified \cup {<<user_id, asin>>}

\* has_user_been_notified without its SELECT: no row is ever found
has_user_been_notified_never(notified, user_id, asin) == FALSE

has_user_been_notified(notified, user_id, asin) == <<user_id, asin>> \in notified

clear_user_notifications(notified, asin) == {row \in notified : row[2] # asin}

get_users_for_keyword(alerts, keyword) ==
  {row \in alerts : row[2] = Lower(keyword)}

get_all_keyword_alerts(alerts) == alerts

\* ------------------------------------------------- recipients of a deal
\* the CATEGORIES keys post_deals finds in the deal's category (line 601)
CategoryKeys(category) ==
  {CATEGORIES[i].category : i \in {j \in 1..Len(CATEGORIES) :
      IsSubstring(Lower(CATEGORIES[j].category), Lower(category))}}

\* the rows the second loop of the fan-out visits
CategoryRows(alerts, category) ==
  UNION {get_users_for_keyword(alerts, k) : k \in CategoryKeys(category)}

TitleMatch(keyword, title) == IsSubstring(Lower(keyword), Lower(title))

\* a keyword of u matches a deal with this title (second and third loop)
KeywordMatch(u, title) ==
  \E row \in keyword_alerts :
    /\ row[1] = u
    /\ \/ row \in CategoryRows(keyword_alerts, category_of[title])
       \/ TitleMatch(row[2], title)

\* u qualifies for a personal message about asin at this discount
Qualifies(u, asin, discount) ==
  \/ /\ <<u, asin>> \in user_tracking
     /\ discount >= get_user_min_discount(user_preferences, u)
  \/ KeywordMatch(u, Title(asin))

\* ---------------------------------------------------------- price badge
add_price_history(history, asin, price) ==
  [history EXCEPT ![asin] = <<price>> \o @]

\* ORDER BY date DESC; every point of a behaviour is younger than 30 days
get_price_history(history, asin) == history[asin]

MinPrice(prices) == CHOOSE p \in {prices[i] : i \in 1..Len(prices)} :
                      \A i \in 1..Len(prices) : p <= prices[i]

NoBadge == [kind |-> "none", from |-> 0]

\* price_badge with the comparisons of lines 566 and 568 made before that of line 564
price_badge_lowest_last(price, prices) ==
  IF prices = <<>> THEN NoBadge
  ELSE IF price < prices[1] THEN [kind |-> "dropped", from |-> prices[1]]
  ELSE IF price > prices[1] THEN [kind |-> "increased", from |-> prices[1]]
  ELSE IF price = MinPrice(prices) THEN [kind |-> "lowest", from |-> 0]
  ELSE NoBadge

\* lines 557-569 (933-945): the badge appended to the message
price_badge(price, prices) ==
  IF prices = <<>> THEN NoBadge
  ELSE IF price = MinPrice(prices) THEN [kind |-> "lowest", from |-> 0]
  ELSE IF price < prices[1] THEN [kind |-> "dropped", from |-> prices[1]]
  ELSE IF price > prices[1] THEN [kind |-> "increased", from |-> prices[1]]
  ELSE NoBadge

\* ------------------------------------------- reconciling (scrape_deals)
\* The store and the history a reconciling step reads and writes.
NoClass == [x \in Items |-> [class |-> "none", discount |-> 0, first |-> FALSE, strict |-> FALSE]]

Store ==
  [deals |-> deals, notified |-> user_notified, history |-> price_history,
   out |-> <<>>, class |-> "none",
   gRecorded |-> gRecorded, gNew |-> gNew, gClass |-> NoClass, gSince |-> gSince,
   gPre |-> gPre, gOwed |-> gOwed, gImpBy |-> gImpBy, gSent |-> gSent]

\* one call of is_new_or_updated_deal by p, with the history it leaves
record_observation(st, p, asin, discount) ==
  LET r == is_new_or_updated_deal(st.deals, asin, discount)
      hit == r.class # "Unchanged"
      had == {u \in Users : <<u, asin>> \in st.notified}
  IN [st EXCEPT
        !.deals = r.deals,
        !.class = r.class,
        !.gRecorded[asin] = Max(@, discount),
        !.gNew[asin] = IF r.class = "New" THEN Inc(@) ELSE @,
        !.gClass[asin] = [class |-> r.class,
                          discount |-> discount,
                          first |-> st.gRecorded[asin] = 0,
                          strict |-> discount > st.gRecorded[asin]],
        !.gSince = IF hit THEN [u \in Users |-> [st.gSince[u] EXCEPT ![asin] = 0]] ELSE @,
        !.gPre[asin] = IF hit THEN had ELSE @,
        !.gOwed[asin] = IF hit THEN {u \in had : Qualifies(u, asin, discount)} ELSE @,
        !.gImpBy[asin] = IF hit THEN p ELSE @]

\* one call of clear_user_notifications
clear_records(st, asin) ==
  [st EXCEPT !.notified = clear_user_notifications(@, asin),
             !.gPre[asin] = {},
             !.gSent[asin] = {}]

\* A product card: its data-asin, the discount its badge shows (0: no badge),
\* its title span (found or not, and the text in it) and the price it shows
\* (0: no price span, or its text is no number).
Card(asin, discount, span, price) ==
  [asin |-> asin, discount |-> discount, span |-> span, price |-> price]
Absent == [found |-> FALSE, text |-> <<>>]
Blank == [found |-> TRUE, text |-> <<" ">>]
Present(asin) == [found |-> TRUE, text |-> Title(asin)]

\* lines 359-367
card_title(card) == IF card.span.found THEN get_text(card.span.text) ELSE NoTitleFound

\* lines 394-396 do not skip the card
accepted(card) == ~(card_title(card) = NoTitleFound \/ card.discount = 0)

\* with_price without the test of line 399
with_price_always(st, card) ==
  [st EXCEPT !.history = add_price_history(@, card.asin, card.price)]

\* lines 398-400
with_price(st, card) ==
  IF card.price > 0
  THEN [st EXCEPT !.history = add_price_history(@, card.asin, card.price)]
  ELSE st

\* the dict of lines 406-410; gPrior and gBefore are history: the price points
\* of the item before this card was read, and the newest of them
Deal(st, card) ==
  [asin |-> card.asin, title |-> card_title(card),
   category |-> category_of[card_title(card)], discount_val |-> card.discount,
   current_price |-> card.price,
   gPrior |-> IF st.history[card.asin] = <<>> THEN 0 ELSE Head(st.history[card.asin]),
   gBefore |-> st.history[card.asin]]

\* the body of the loop over product cards, lines 355-410
scrape_card(st, p, card) ==
  IF ~accepted(card) THEN st
  ELSE LET rec == record_observation(with_price(st, card), p, card.asin, card.discount)
       IN IF rec.class = "Unchanged" THEN rec
          ELSE [clear_records(rec, card.asin) EXCEPT !.out = Append(@, Deal(st, card))]

RECURSIVE scrape_cards(_, _, _)
scrape_cards(st, p, cards) ==
  IF cards = <<>> THEN st
  ELSE scrape_cards(scrape_card(st, p, Head(cards)), p, Tail(cards))

\* The store calls of the loop body.  None of them is inside a try block:
\* when one raises, the exception leaves scrape_deals and post_deals.
StoreOps == {"add_price_history", "is_new_or_updated_deal", "clear_user_notifications"}

\* the loop body calls op for this card
calls(st, p, card, op) ==
  /\ accepted(card)
  /\ op = "add_price_history" => card.price > 0
  /\ op = "clear_user_notifications" =>
       record_observation(with_price(st, card), p, card.asin, card.discount).class # "Unchanged"

\* the loop body up to the call of op, which raises
scrape_card_raising(st, p, card, op) ==
  IF op = "add_price_history" THEN st
  ELSE IF op = "is_new_or_updated_deal" THEN with_price(st, card)
  ELSE record_observation(with_price(st, card), p, card.asin, card.discount)

\* lines 346-350 falling through to the parsing of a stale page
load_failed_stale(st) ==
  [st EXCEPT !.out = <<[asin |-> "B1", title |-> Title("B1"),
                        category |-> category_of[Title("B1")], discount_val |-> 20,
                        current_price |-> 0, gPrior |-> 0, gBefore |-> <<>>]>>]

\* lines 346-350: scrape_deals returns [] before any store call
load_failed(st) == [st EXCEPT !.out = <<>>]

\* the items the deals page and the /url commands show: the runs and
\* commands of Spec all meet on them
HotItems == {"B1"}
Cards == {Card(x, d, Present(x), 0) : x \in HotItems, d \in PageDiscounts}
Pages == UNION {[1..n -> Cards] : n \in 0..MaxCards}

\* the thresholds users of SpecBatch may have set with /setdiscount
BatchMins == {20, 30}

\* the pages of SpecBatch: both items, and cards of B2 without a title span
\* or with a blank one
BatchCards ==
  {Card(x, d, Present(x), 0) : x \in Items, d \in PageDiscounts}
    \cup {Card("B2", 20, s, 0) : s \in {Absent, Blank}}
BatchPages == UNION {[1..n -> BatchCards] : n \in 0..MaxBatch}

\* the pages of SpecPrice: cards with a price
PagePrices == {0, 90, 95}
PriceCards == {Card(x, d, Present(x), p) : x \in HotItems, d \in PageDiscounts, p \in PagePrices}
PricePages == UNION {[1..n -> PriceCards] : n \in 0..MaxPriceCards}

\* ------------------------------------------------------- price of a card
Digit ==
  [c \in {"0", "1", "2", "3", "4", "5", "6", "7", "8", "9"} |->
     CASE c = "0" -> 0 [] c = "1" -> 1 [] c = "2" -> 2 [] c = "3" -> 3 [] c = "4" -> 4
       [] c = "5" -> 5 [] c = "6" -> 6 [] c = "7" -> 7 [] c = "8" -> 8 [] c = "9" -> 9]

\* str.replace(old, ''): every occurrence of old goes, left to right
RECURSIVE replace(_, _)
replace(s, old) ==
  IF Len(s) < Len(old) THEN s
  ELSE IF SubSeq(s, 1, Len(old)) = old THEN replace(SubSeq(s, Len(old) + 1, Len(s)), old)
  ELSE <<Head(s)>> \o replace(Tail(s), old)

RECURSIVE decimal(_)
decimal(s) == IF s = <<>> THEN 0 ELSE 10 * decimal(SubSeq(s, 1, Len(s) - 1)) + Digit[s[Len(s)]]

\* float() on the texts a price span shows: an optional sign and digits give
\* their value, any other text raises ValueError
float(s) ==
  LET neg == s # <<>> /\ Head(s) = "-"
      digits == IF neg THEN Tail(s) ELSE s
  IN IF digits # <<>> /\ \A i \in 1..Len(digits) : digits[i] \in DOMAIN Digit
     THEN [raised |-> FALSE, value |-> IF neg THEN 0 - decimal(digits) ELSE decimal(digits)]
     ELSE [raised |-> TRUE, value |-> 0]

\* lines 369-375 (515-522): current_price stays 0 when the card has no price
\* span or float() raises on its text
current_price(span) ==
  IF ~span.found THEN 0
  ELSE LET f == float(replace(get_text(span.text), <<",">>))
       IN IF f.raised THEN 0 ELSE f.value

\* the price spans of the cards of SpecBadge
PriceSpans ==
  { Absent,
    [found |-> TRUE, text |-> <<"9", "0">>],
    [found |-> TRUE, text |-> <<" ", "9", "5", " ">>],
    [found |-> TRUE, text |-> <<"1", ",", "0", "9", "0">>],
    [found |-> TRUE, text |-> <<"N", "/", "A">>],
    [found |-> TRUE, text |-> <<"-", "5">>] }

\* the pages of SpecBadge: up to MaxBadgeCards cards of one item, each with
\* the text of its price span
BadgeCards ==
  {Card(x, d, Present(x), current_price(s)) : x \in HotItems, d \in PageDiscounts, s \in PriceSpans}
BadgePages == UNION {[1..n -> BadgeCards] : n \in 0..MaxBadgeCards}

\* the pages of SpecTitles: one card of B1 with any of the titles
TitleCards ==
  {Card(x, d, [found |-> TRUE, text |-> t], 0) : x \in HotItems, d \in DiscountValues, t \in TitleTexts}
TitlePages == {<<card>> : card \in TitleCards}

\* the prices the product page of a /url command shows
UrlPrices == {0}

\* ------------------------------------------------- fan-out (post_deals)
\* A row of a recipient list is <<user_id, keyword>>; the rows of the
\* tracking loop carry the empty keyword.
NoKeyword == <<>>
TrackingRows(asin) == {<<u, NoKeyword>> : u \in get_users_tracking_asin(user_tracking, asin)}

\* the rows of the three recipient lists of a deal that name u and pass the
\* test of their loop (lines 594, 601-602, 610)
Routes(u, deal) ==
  {<<"track", row>> : row \in {t \in TrackingRows(deal.asin) :
      t[1] = u /\ deal.discount_val >= get_user_min_discount(user_preferences, u)}}
  \cup {<<"cat", row>> : row \in {c \in CategoryRows(keyword_alerts, deal.category) :
                                     c[1] = u}}
  \cup {<<"title", row>> : row \in {k \in get_all_keyword_alerts(keyword_alerts) :
                                       k[1] = u /\ TitleMatch(k[2], deal.title)}}

\* sends_to with `deal['discount_val'] > min_disc` on line 594
sends_to_above(phase, row, deal, notified) ==
  /\ ~has_user_been_notified(notified, row[1], deal.asin)
  /\ phase = "track" =>
       deal.discount_val > get_user_min_discount(user_preferences, row[1])
  /\ phase = "title" => TitleMatch(row[2], deal.title)

\* sends_to with the test of line 594 also made in the keyword loops
sends_to_gated(phase, row, deal, notified) ==
  /\ ~has_user_been_notified(notified, row[1], deal.asin)
  /\ deal.discount_val >= get_user_min_discount(user_preferences, row[1])
  /\ phase = "title" => TitleMatch(row[2], deal.title)

\* the loop of the fan-out sends a personal message for this row
\* (lines 592-595 in the tracking loop, 604 in the category loop, 610-611 in the title loop)
sends_to(phase, row, deal, notified) ==
  /\ ~has_user_been_notified(notified, row[1], deal.asin)
  /\ phase = "track" =>
       deal.discount_val >= get_user_min_discount(user_preferences, row[1])
  /\ phase = "title" => TitleMatch(row[2], deal.title)

RECURSIVE skip_rows(_, _, _, _)
skip_rows(phase, rows, deal, notified) ==
  IF rows = <<>> THEN <<>>
  ELSE IF sends_to(phase, Head(rows), deal, notified) THEN rows
       ELSE skip_rows(phase, Tail(rows), deal, notified)

\* Run the three loops of lines 590-613 from `rows` of loop `phase` up to the
\* next awaited send_message: where the run is suspended then.  catRows and
\* kwRows are what get_users_for_keyword and get_all_keyword_alerts return
\* if the loops that call them are reached.
RECURSIVE fan_out(_, _, _, _, _, _)
fan_out(phase, rows, deal, notified, catRows, kwRows) ==
  LET s == skip_rows(phase, rows, deal, notified)
  IN IF s # <<>> THEN [pc |-> phase, cur |-> Head(s), todo |-> Tail(s)]
     ELSE IF phase = "track" THEN fan_out("cat", catRows, deal, notified, catRows, kwRows)
     ELSE IF phase = "cat" THEN fan_out("title", kwRows, deal, notified, catRows, kwRows)
     ELSE [pc |-> "sleep", cur |-> <<>>, todo |-> <<>>]

\* lines 596-597 with mark_user_notified moved before the send
deliver_marked_first(notified, delivered, user_id, asin) ==
  mark_user_notified(notified, user_id, asin)

\* lines 596-597 (605-606, 612-613): mark_user_notified runs only when
\* send_message returned, not when it raised
deliver(notified, delivered, user_id, asin) ==
  IF delivered THEN mark_user_notified(notified, user_id, asin) ELSE notified

\* an exception that leaves post_deals ending the process
propagated_fatal(r) == "crashed"

\* an exception leaves post_deals (line 545 is outside any try block): the
\* scheduler's executor, or the dispatcher for /post, logs it and the run
\* is over
propagated(r) == "idle"

Release(r, done) == IF done /\ r = "manual" THEN "none" ELSE handler

\* the message of the deal post_deals turns to next (lines 547-569)
next_badge(deals_left, history) ==
  IF deals_left = <<>> THEN NoBadge
  ELSE price_badge(Head(deals_left).current_price,
                   get_price_history(history, Head(deals_left).asin))

\* ---------------------------------------------------------------- Init
EmptyRows == [k \in {} |-> 0]
\* the deal of a /url command before its page is read; gWas is history: the
\* discount recorded for the item when the page was read (0: no row)
NoDeal == [asin |-> "B1", title |-> <<>>, category |-> DefaultCategory, discount_val |-> 0,
           current_price |-> 0, gWas |-> 0]

\* the answer a registry command gives: none yet
NoReply == [cmd |-> "none", user |-> "none", args |-> <<>>, text |-> "none", shown |-> 0]
\* the answer of cmd to user: its text, and the number the text shows (0: none)
Reply(cmd, user, args, text) ==
  [cmd |-> cmd, user |-> user, args |-> args, text |-> text, shown |-> 0]

\* no store call in progress
NoCall == [fn |-> "none", stage |-> "none", gOpenBefore |-> 0]

\* a fresh database after init_db, the registry tables filled by the commands
\* users sent before the first run, and no run or command in progress
InitRegistry(trackings, preferences, alerts) ==
  /\ deals = EmptyRows
  /\ user_notified = {}
  /\ price_history = [x \in Items |-> <<>>]
  /\ user_tracking \in trackings
  /\ user_preferences \in preferences
  /\ keyword_alerts \in alerts
  /\ pc = [r \in Runs |-> "idle"]
  /\ queue = [r \in Runs |-> <<>>]
  /\ todo = [r \in Runs |-> <<>>]
  /\ cur = [r \in Runs |-> <<>>]
  /\ badge = [r \in Runs |-> NoBadge]
  /\ upc = "idle"
  /\ udeal = NoDeal
  /\ ubadge = NoBadge
  /\ handler = "none"
  /\ runs = 0
  /\ urls = 0
  /\ gRecorded = [x \in Items |-> 0]
  /\ gNew = [x \in Items |-> 0]
  /\ gClass = NoClass
  /\ gLoad = NoProc
  /\ gSince = [u \in Users |-> [x \in Items |-> 0]]
  /\ gPre = [x \in Items |-> {}]
  /\ gLast = [u \in Users |-> [x \in Items |-> 0]]
  /\ gOwed = [x \in Items |-> {}]
  /\ gImpBy = [x \in Items |-> NoProc]
  /\ gSent = [x \in Items |-> {}]
  /\ gFail = [r \in Runs |-> "none"]
  /\ gChan = [x \in Items |-> [d \in DiscountValues |-> 0]]
  /\ gUser = [u \in Users |-> [x \in Items |-> [d \in DiscountValues |-> 0]]]
  /\ gOwing = [r \in Runs |-> <<>>]
  /\ gPage = [r \in Runs |-> <<>>]
  /\ gBad = [r \in Runs |-> 0]
  /\ reply = NoReply
  /\ cmds = 0
  /\ conns = 0
  /\ call = NoCall
  /\ ncalls = 0

Init ==
  InitRegistry(SUBSET (Users \X HotItems),
               [PrefUsers -> MinDiscountValues],
               SUBSET (AlertUsers \X KeywordValues))

\* -------------------------------------------------- post_deals, per run
\* the scheduler fires post_deals, or an admin sends /post (manual_post)
StartRun(r) ==
  /\ pc[r] = "idle"
  /\ runs < MaxRuns
  /\ r = "manual" => handler = "none"
  /\ pc' = [pc EXCEPT ![r] = "fetch"]
  /\ handler' = IF r = "manual" THEN "manual" ELSE handler
  /\ runs' = runs + 1
  /\ gFail' = [gFail EXCEPT ![r] = "none"]
  /\ gClass' = NoClass
  /\ gLoad' = NoProc
  /\ UNCHANGED <<cmdVars, connVars>>
  /\ UNCHANGED <<storeVars, queue, todo, cur, badge, urlVars,
                 gRecorded, gNew, gSince, gPre, gLast, gOwed, gImpBy, gSent,
                 gChan, gUser, gOwing, gPage, gBad>>

\* the page load of scrape_deals raises: it returns [] and post_deals ends
FetchFailed(r) ==
  /\ pc[r] = "fetch"
  /\ LET st == load_failed(Store)
     IN /\ deals' = st.deals
        /\ user_notified' = st.notified
        /\ price_history' = st.history
        /\ queue' = [queue EXCEPT ![r] = st.out]
        /\ pc' = [pc EXCEPT ![r] = IF st.out = <<>> THEN "idle" ELSE "chan"]
        /\ handler' = Release(r, st.out = <<>>)
        /\ badge' = [badge EXCEPT ![r] = next_badge(st.out, st.history)]
        /\ gOwing' = [gOwing EXCEPT ![r] = st.out]
  /\ gClass' = NoClass
  /\ gLoad' = r
  /\ UNCHANGED <<cmdVars, connVars>>
  /\ UNCHANGED <<user_tracking, user_preferences, keyword_alerts, todo, cur, runs, urlVars,
                 gRecorded, gNew, gSince, gPre, gLast, gOwed, gImpBy, gSent,
                 gFail, gChan, gUser, gPage, gBad>>

\* the page loads: the loop over its cards, then post_deals up to the first channel send
Scraped(r, page) ==
  /\ pc[r] = "fetch"
  /\ LET st == scrape_cards(Store, r, page)
     IN /\ deals' = st.deals
        /\ user_notified' = st.notified
        /\ price_history' = st.history
        /\ queue' = [queue EXCEPT ![r] = st.out]
        /\ pc' = [pc EXCEPT ![r] = IF st.out = <<>> THEN "idle" ELSE "chan"]
        /\ handler' = Release(r, st.out = <<>>)
        /\ badge' = [badge EXCEPT ![r] = next_badge(st.out, st.history)]
        /\ gRecorded' = st.gRecorded
        /\ gNew' = st.gNew
        /\ gClass' = st.gClass
        /\ gLoad' = NoProc
        /\ UNCHANGED <<cmdVars, connVars>>
        /\ gSince' = st.gSince
        /\ gPre' = st.gPre
        /\ gOwed' = st.gOwed
        /\ gImpBy' = st.gImpBy
        /\ gSent' = st.gSent
        /\ gOwing' = [gOwing EXCEPT ![r] = st.out]
  /\ UNCHANGED <<user_tracking, user_preferences, keyword_alerts, todo, cur, runs,
                 urlVars, gLast, gFail, gChan, gUser, gPage, gBad>>

\* the page loads and a store call of the loop body raises at card `bad`:
\* the exception leaves scrape_deals and post_deals, and the run ends with
\* the deals collected so far dropped
StoreFailed(r, page, bad, op) ==
  /\ pc[r] = "fetch"
  /\ bad \in 1..Len(page)
  /\ LET before == scrape_cards(Store, r, SubSeq(page, 1, bad - 1))
         st == scrape_card_raising(before, r, page[bad], op)
     IN /\ calls(before, r, page[bad], op)
        /\ deals' = st.deals
        /\ user_notified' = st.notified
        /\ price_history' = st.history
        /\ gRecorded' = st.gRecorded
        /\ gNew' = st.gNew
        /\ gClass' = st.gClass
        /\ gLoad' = NoProc
        /\ UNCHANGED <<cmdVars, connVars>>
        /\ gSince' = st.gSince
        /\ gPre' = st.gPre
        /\ gOwed' = st.gOwed
        /\ gImpBy' = st.gImpBy
        /\ gSent' = st.gSent
        /\ gOwing' = [gOwing EXCEPT ![r] = st.out]
  /\ pc' = [pc EXCEPT ![r] = propagated(r)]
  /\ handler' = Release(r, TRUE)
  /\ gFail' = [gFail EXCEPT ![r] = "store"]
  /\ gPage' = [gPage EXCEPT ![r] = page]
  /\ gBad' = [gBad EXCEPT ![r] = bad]
  /\ UNCHANGED <<user_tracking, user_preferences, keyword_alerts, queue, todo, cur, badge,
                 runs, urlVars, gLast, gChan, gUser>>

\* the channel send raises: the except of line 616 ends the deal's fan-out
ChannelFailed(r) ==
  /\ pc[r] = "chan"
  /\ pc' = [pc EXCEPT ![r] = "sleep"]
  /\ gFail' = [gFail EXCEPT ![r] = "channel"]
  /\ gOwing' = [gOwing EXCEPT ![r] = Tail(@)]
  /\ gClass' = NoClass
  /\ gLoad' = NoProc
  /\ UNCHANGED <<cmdVars, connVars>>
  /\ UNCHANGED <<storeVars, queue, todo, cur, badge, runs, urlVars, handler,
                 gRecorded, gNew, gSince, gPre, gLast, gOwed, gImpBy, gSent,
                 gChan, gUser, gPage, gBad>>

\* the channel send returns: the recipient loops up to the first personal send
ChannelSent(r) ==
  /\ pc[r] = "chan"
  /\ LET deal == Head(queue[r])
     IN \E trk \in Orders(TrackingRows(deal.asin)),
           cat \in Orders(CategoryRows(keyword_alerts, deal.category)),
           kw \in Orders(get_all_keyword_alerts(keyword_alerts)) :
          LET f == fan_out("track", trk, deal, user_notified, cat, kw)
          IN /\ pc' = [pc EXCEPT ![r] = f.pc]
             /\ cur' = [cur EXCEPT ![r] = f.cur]
             /\ todo' = [todo EXCEPT ![r] = f.todo]
             /\ gChan' = [gChan EXCEPT ![deal.asin][deal.discount_val] = Inc(@)]
  /\ gOwing' = [gOwing EXCEPT ![r] = Tail(@)]
  /\ gClass' = NoClass
  /\ gLoad' = NoProc
  /\ UNCHANGED <<cmdVars, connVars>>
  /\ UNCHANGED <<storeVars, queue, badge, runs, urlVars, handler,
                 gRecorded, gNew, gSince, gPre, gLast, gOwed, gImpBy, gSent,
                 gFail, gUser, gPage, gBad>>

\* a personal send raises: the except of line 616 ends the deal's fan-out
UserSendFailed(r) ==
  /\ pc[r] \in {"track", "cat", "title"}
  /\ LET deal == Head(queue[r])
     IN /\ user_notified' = deliver(user_notified, FALSE, cur[r][1], deal.asin)
        /\ gOwed' = [gOwed EXCEPT ![deal.asin] = @ \ {cur[r][1]}]
  /\ pc' = [pc EXCEPT ![r] = "sleep"]
  /\ cur' = [cur EXCEPT ![r] = <<>>]
  /\ todo' = [todo EXCEPT ![r] = <<>>]
  /\ gFail' = [gFail EXCEPT ![r] = "user"]
  /\ gClass' = NoClass
  /\ gLoad' = NoProc
  /\ UNCHANGED <<cmdVars, connVars>>
  /\ UNCHANGED <<deals, user_tracking, user_preferences, keyword_alerts, price_history,
                 queue, badge, runs, urlVars, handler, gRecorded, gNew, gSince, gPre, gLast,
                 gImpBy, gSent, gChan, gUser, gOwing, gPage, gBad>>

\* a personal send returns: the record is written and the loops go on to the next send
UserSent(r) ==
  /\ pc[r] \in {"track", "cat", "title"}
  /\ LET deal == Head(queue[r])
         u == cur[r][1]
         notified == deliver(user_notified, TRUE, u, deal.asin)
     IN /\ user_notified' = notified
        /\ \E cat \in Orders(CategoryRows(keyword_alerts, deal.category)),
              kw \in Orders(get_all_keyword_alerts(keyword_alerts)) :
             LET f == fan_out(pc[r], todo[r], deal, notified, cat, kw)
             IN /\ pc' = [pc EXCEPT ![r] = f.pc]
                /\ cur' = [cur EXCEPT ![r] = f.cur]
                /\ todo' = [todo EXCEPT ![r] = f.todo]
        /\ gSince' = [gSince EXCEPT ![u][deal.asin] = Inc(@)]
        /\ gLast' = [gLast EXCEPT ![u][deal.asin] = deal.discount_val]
        /\ gSent' = [gSent EXCEPT ![deal.asin] = @ \cup {u}]
        /\ gUser' = [gUser EXCEPT ![u][deal.asin][deal.discount_val] = Inc(@)]
  /\ gClass' = NoClass
  /\ gLoad' = NoProc
  /\ UNCHANGED <<cmdVars, connVars>>
  /\ UNCHANGED <<deals, user_tracking, user_preferences, keyword_alerts, price_history,
                 queue, badge, runs, urlVars, handler, gRecorded, gNew, gPre, gOwed, gImpBy,
                 gFail, gChan, gOwing, gPage, gBad>>

\* asyncio.sleep(2) returns: the next deal up to its channel send, or the end of the run
Slept(r) ==
  /\ pc[r] = "sleep"
  /\ queue' = [queue EXCEPT ![r] = Tail(@)]
  /\ pc' = [pc EXCEPT ![r] = IF Tail(queue[r]) = <<>> THEN "idle" ELSE "chan"]
  /\ handler' = Release(r, Tail(queue[r]) = <<>>)
  /\ badge' = [badge EXCEPT ![r] = next_badge(Tail(queue[r]), price_history)]
  /\ gFail' = [gFail EXCEPT ![r] = "none"]
  /\ gClass' = NoClass
  /\ gLoad' = NoProc
  /\ UNCHANGED <<cmdVars, connVars>>
  /\ UNCHANGED <<storeVars, todo, cur, runs, urlVars,
                 gRecorded, gNew, gSince, gPre, gLast, gOwed, gImpBy, gSent,
                 gChan, gUser, gOwing, gPage, gBad>>

\* ------------------------------------------------------ /url (post_by_url)
UrlDone == /\ upc' = "idle"
           /\ handler' = "none"
           /\ udeal' = [udeal EXCEPT !.gWas = 0]

\* an admin sends /url <asin>: up to the page load of scrape_single_product_by_asin
UrlStart(asin) ==
  /\ handler = "none"
  /\ upc = "idle"
  /\ urls < MaxUrls
  /\ upc' = "scrape"
  /\ udeal' = [NoDeal EXCEPT !.asin = asin]
  /\ handler' = "url"
  /\ urls' = urls + 1
  /\ gClass' = NoClass
  /\ gLoad' = NoProc
  /\ UNCHANGED <<cmdVars, connVars>>
  /\ UNCHANGED <<storeVars, pc, queue, todo, cur, badge, runs, ubadge, histVars>>

\* the page load raises (or shows a CAPTCHA, or no title): the handler replies and returns
UrlScrapeFailed ==
  /\ upc = "scrape"
  /\ UrlDone
  /\ gClass' = NoClass
  /\ gLoad' = NoProc
  /\ UNCHANGED <<cmdVars, connVars>>
  /\ UNCHANGED <<storeVars, runVars, ubadge, urls, histVars>>

\* the page loads with this discount and price: the price point of lines
\* 526-528, the duplicate check of line 917, then up to the channel send
UrlScraped(discount, price) ==
  /\ upc = "scrape"
  /\ LET card == Card(udeal.asin, discount, Present(udeal.asin), price)
         priced == with_price(Store, card)
         st == IF discount > 0
               THEN record_observation(priced, "url", udeal.asin, discount)
               ELSE priced
         duplicate == discount > 0 /\ st.class = "Unchanged"
     IN /\ deals' = st.deals
        /\ price_history' = st.history
        /\ upc' = IF duplicate THEN "idle" ELSE "chan"
        /\ handler' = IF duplicate THEN "none" ELSE handler
        /\ udeal' = [udeal EXCEPT !.title = card_title(card),
                                  !.category = category_of[card_title(card)],
                                  !.discount_val = discount,
                                  !.current_price = price,
                                  !.gWas = IF ~duplicate /\ udeal.asin \in DOMAIN deals
                                           THEN deals[udeal.asin] ELSE 0]
        /\ ubadge' = IF duplicate THEN NoBadge
                     ELSE price_badge(price, get_price_history(st.history, udeal.asin))
        /\ gRecorded' = st.gRecorded
        /\ gNew' = st.gNew
        /\ gClass' = st.gClass
        /\ gLoad' = NoProc
        /\ UNCHANGED <<cmdVars, connVars>>
        /\ gSince' = st.gSince
        /\ gPre' = st.gPre
        /\ gOwed' = st.gOwed
        /\ gImpBy' = st.gImpBy
  /\ UNCHANGED <<user_tracking, user_preferences, user_notified, keyword_alerts,
                 runVars, urls, gLast, gSent, gFail, gChan, gUser, gOwing, gPage, gBad>>

\* the channel send raises: the except of line 967
UrlChannelFailed ==
  /\ upc = "chan"
  /\ UrlDone
  /\ gClass' = NoClass
  /\ gLoad' = NoProc
  /\ UNCHANGED <<cmdVars, connVars>>
  /\ UNCHANGED <<storeVars, runVars, ubadge, urls, histVars>>

\* the channel send returns: up to the reply of line 962
UrlChannelSent ==
  /\ upc = "chan"
  /\ upc' = "reply"
  /\ gClass' = NoClass
  /\ gLoad' = NoProc
  /\ UNCHANGED <<cmdVars, connVars>>
  /\ UNCHANGED <<storeVars, runVars, udeal, ubadge, urls, handler, histVars>>

\* the reply of line 962 raises: line 965 is skipped
UrlReplyFailed ==
  /\ upc = "reply"
  /\ UrlDone
  /\ gClass' = NoClass
  /\ gLoad' = NoProc
  /\ UNCHANGED <<cmdVars, connVars>>
  /\ UNCHANGED <<storeVars, runVars, ubadge, urls, histVars>>

\* the reply returns: clear_user_notifications of line 965
UrlReplied ==
  /\ upc = "reply"
  /\ LET st == clear_records(Store, udeal.asin)
     IN /\ user_notified' = st.notified
        /\ gPre' = st.gPre
        /\ gSent' = st.gSent
  /\ UrlDone
  /\ gClass' = NoClass
  /\ gLoad' = NoProc
  /\ UNCHANGED <<cmdVars, connVars>>
  /\ UNCHANGED <<deals, user_tracking, user_preferences, keyword_alerts, price_history,
                 runVars, ubadge, urls, gRecorded, gNew, gSince, gLast, gOwed, gImpBy,
                 gFail, gChan, gUser, gOwing, gPage, gBad>>

\* ----------------------------------------------------- registry commands
\* add_user_track with INSERT ... ON CONFLICT DO NOTHING and `return True`
add_user_track_blind(tracking, user_id, asin) ==
  [rows |-> tracking \cup {<<user_id, asin>>}, added |-> TRUE]

\* add_user_track: the INSERT raises IntegrityError on the primary key
\* (user_id, asin) and the function returns False
add_user_track(tracking, user_id, asin) ==
  IF <<user_id, asin>> \in tracking
  THEN [rows |-> tracking, added |-> FALSE]
  ELSE [rows |-> tracking \cup {<<user_id, asin>>}, added |-> TRUE]

remove_user_track(tracking, user_id, asin) == tracking \ {<<user_id, asin>>}

set_user_min_discount(prefs, user_id, discount) == Put(prefs, user_id, discount)

\* add_keyword_alert: the keyword is lower-cased, the INSERT raises
\* IntegrityError on the primary key (user_id, keyword)
add_keyword_alert(alerts, user_id, keyword) ==
  LET row == <<user_id, Lower(keyword)>>
  IN IF row \in alerts
     THEN [rows |-> alerts, added |-> FALSE]
     ELSE [rows |-> alerts \cup {row}, added |-> TRUE]

\* remove_keyword_alert with `return True` on line 246
remove_keyword_alert_always(alerts, user_id, keyword) ==
  [rows |-> alerts \ {<<user_id, Lower(keyword)>>}, removed |-> TRUE]

\* remove_keyword_alert: `c.rowcount > 0` tells whether the DELETE found the row
remove_keyword_alert(alerts, user_id, keyword) ==
  LET row == <<user_id, Lower(keyword)>>
  IN [rows |-> alerts \ {row}, removed |-> row \in alerts]

\* the data-asin of an item as text
AsinText(asin) == IF asin = "B1" THEN <<"B", "1">> ELSE <<"B", "2">>
AsinOf(text) == CHOOSE x \in Items : AsinText(x) = text

\* the callback data of the buttons under a deal (lines 577-578, 672)
TrackData(asin) == <<"t", "r", "a", "c", "k", "_">> \o AsinText(asin)
UntrackData(asin) == <<"u", "n", "t", "r", "a", "c", "k", "_">> \o AsinText(asin)

\* int() on an argument of a command: an optional sign and digits give their
\* value, any other text raises ValueError
int(s) ==
  LET signed == s # <<>> /\ Head(s) \in {"-", "+"}
      digits == IF signed THEN Tail(s) ELSE s
  IN IF digits # <<>> /\ \A i \in 1..Len(digits) : digits[i] \in DOMAIN Digit
     THEN [raised |-> FALSE,
           value |-> IF Head(s) = "-" THEN 0 - decimal(digits) ELSE decimal(digits)]
     ELSE [raised |-> TRUE, value |-> 0]

\* set_discount without the test of line 759
valid_discount_any(discount_value) == TRUE

\* line 759
valid_discount(discount_value) == 1 <= discount_value /\ discount_value <= 99

\* the arguments users give to /setdiscount
DiscountArgs ==
  { <<>>,
    << <<"5", "0">> >>,
    << <<"1">> >>,
    << <<"9", "9">>, <<"o", "f", "f">> >>,
    << <<"0">> >>,
    << <<"1", "0", "0">> >>,
    << <<"-", "5">> >>,
    << <<"a", "b", "c">> >>,
    << <<"5", ".", "5">> >> }

\* the arguments users give to /alertme and /removealert
KeywordArgs ==
  { <<>>,
    << <<"l", "a", "p", "t", "o", "p">> >>,
    << <<"L", "a", "p", "t", "o", "p">> >>,
    << <<"L", "A", "P", "T", "O", "P">> >>,
    << <<"G", "a", "m", "i", "n", "g">>, <<"m", "o", "u", "s", "e">> >> }

\* lines 801 and 828
keyword_of(args) == Lower(get_text(join(args)))

\* what a registry command leaves alone
CommandFrame ==
  /\ cmds < MaxCommands
  /\ handler = "none"
  /\ cmds' = cmds + 1
  /\ gClass' = NoClass
  /\ gLoad' = NoProc
  /\ UNCHANGED <<deals, user_notified, price_history, runVars, urlVars, handler, histVars,
                 connVars>>

\* a user presses Track Deal: handle_track_button up to query.answer
TrackPressed(user_id, item) ==
  /\ CommandFrame
  /\ LET data == TrackData(item)
         asin == AsinOf(replace(data, <<"t", "r", "a", "c", "k", "_">>))
         r == add_user_track(user_tracking, user_id, asin)
     IN /\ user_tracking' = r.rows
        /\ reply' = Reply("track", user_id, data,
                          IF r.added THEN "Deal tracked!" ELSE "Already tracking.")
  /\ UNCHANGED <<user_preferences, keyword_alerts>>

\* a user presses Untrack and query.answer raises: handle_untrack_button ends
UntrackUnanswered(user_id, item) ==
  /\ CommandFrame
  /\ reply' = Reply("untrack", user_id, UntrackData(item), "none")
  /\ UNCHANGED <<user_tracking, user_preferences, keyword_alerts>>

\* a user presses Untrack and query.answer returns: handle_untrack_button
\* up to send_message
UntrackPressed(user_id, item) ==
  /\ CommandFrame
  /\ LET data == UntrackData(item)
         asin == AsinOf(replace(data, <<"u", "n", "t", "r", "a", "c", "k", "_">>))
     IN /\ user_tracking' = remove_user_track(user_tracking, user_id, asin)
        /\ reply' = Reply("untrack", user_id, data, "has been untracked")
  /\ UNCHANGED <<user_preferences, keyword_alerts>>

\* /setdiscount: set_discount up to its reply
SetDiscount(user_id, args) ==
  /\ CommandFrame
  /\ IF args = <<>>
     THEN /\ reply' = [Reply("setdiscount", user_id, args, "Your current alert is set")
                          EXCEPT !.shown = get_user_min_discount(user_preferences, user_id)]
          /\ UNCHANGED user_preferences
     ELSE LET discount_value == int(args[1])
          IN IF discount_value.raised \/ ~valid_discount(discount_value.value)
             THEN /\ reply' = Reply("setdiscount", user_id, args, "Invalid format.")
                  /\ UNCHANGED user_preferences
             ELSE /\ user_preferences' =
                       set_user_min_discount(user_preferences, user_id, discount_value.value)
                  /\ reply' = [Reply("setdiscount", user_id, args, "Success!")
                                  EXCEPT !.shown = discount_value.value]
  /\ UNCHANGED <<user_tracking, keyword_alerts>>

\* /alertme: alert_me up to its reply
AlertMe(user_id, args) ==
  /\ CommandFrame
  /\ IF args = <<>>
     THEN /\ reply' = Reply("alertme", user_id, args, "Please provide a keyword")
          /\ UNCHANGED keyword_alerts
     ELSE IF keyword_of(args) = <<>>
     THEN /\ reply' = Reply("alertme", user_id, args, "Keyword cannot be empty.")
          /\ UNCHANGED keyword_alerts
     ELSE LET r == add_keyword_alert(keyword_alerts, user_id, keyword_of(args))
          IN /\ keyword_alerts' = r.rows
             /\ reply' = Reply("alertme", user_id, args,
                               IF r.added THEN "You will now receive alerts"
                               ELSE "You are already subscribed")
  /\ UNCHANGED <<user_tracking, user_preferences>>

\* /removealert: remove_alert up to its reply
RemoveAlert(user_id, args) ==
  /\ CommandFrame
  /\ IF args = <<>>
     THEN /\ reply' = Reply("removealert", user_id, args, "Please provide the keyword")
          /\ UNCHANGED keyword_alerts
     ELSE IF keyword_of(args) = <<>>
     THEN /\ reply' = Reply("removealert", user_id, args, "Keyword cannot be empty.")
          /\ UNCHANGED keyword_alerts
     ELSE LET r == remove_keyword_alert(keyword_alerts, user_id, keyword_of(args))
          IN /\ keyword_alerts' = r.rows
             /\ reply' = Reply("removealert", user_id, args,
                               IF r.removed THEN "have been removed"
                               ELSE "You were not subscribed")
  /\ UNCHANGED <<user_tracking, user_preferences>>

\* ------------------------------------------------ database connections
\* the store functions: each opens a connection with get_db_connection and
\* runs its statements inside try ... finally: conn.close()
StoreFunctions ==
  {"is_new_or_updated_deal", "get_users_tracking_asin", "get_user_min_discount",
   "set_user_min_discount", "add_user_track", "remove_user_track", "mark_user_notified",
   "has_user_been_notified", "clear_user_notifications", "add_keyword_alert",
   "remove_keyword_alert", "get_user_keyword_alerts", "get_users_for_keyword",
   "add_price_history", "get_price_history", "get_all_keyword_alerts"}

\* the store functions that catch the IntegrityError of their INSERT
CatchesIntegrityError == {"add_user_track", "add_keyword_alert"}

\* get_db_connection returned a connection
connect(open) == open + 1

\* conn.close() in a finally clause that runs only when the try block returned
close_on_return(open, exit) == IF exit = "raised" THEN open ELSE open - 1

\* conn.close() in the finally clause: it runs however the try block is left
close(open, exit) == open - 1

\* a store function is called and get_db_connection returns a connection.
\* Store calls are synchronous: none starts while another is in progress.
Called(fn) ==
  /\ call.stage # "open"
  /\ ncalls < MaxCalls
  /\ ncalls' = ncalls + 1
  /\ conns' = connect(conns)
  /\ call' = [fn |-> fn, stage |-> "open", gOpenBefore |-> conns]
  /\ gClass' = NoClass
  /\ gLoad' = NoProc
  /\ UNCHANGED <<storeVars, runVars, urlVars, handler, histVars, cmdVars>>

\* a store function is called and psycopg2.connect raises OperationalError:
\* get_db_connection re-raises it (line 66) before the try block is entered
ConnectFailed(fn) ==
  /\ call.stage # "open"
  /\ ncalls < MaxCalls
  /\ ncalls' = ncalls + 1
  /\ call' = [fn |-> fn, stage |-> "unconnected", gOpenBefore |-> conns]
  /\ gClass' = NoClass
  /\ gLoad' = NoProc
  /\ UNCHANGED <<storeVars, runVars, urlVars, handler, histVars, cmdVars, conns>>

\* the try block is left with exit: the finally clause closes the connection
Left(exit) ==
  /\ call.stage = "open"
  /\ conns' = close(conns, exit)
  /\ call' = [call EXCEPT !.stage = exit]
  /\ gClass' = NoClass
  /\ gLoad' = NoProc
  /\ UNCHANGED <<storeVars, runVars, urlVars, handler, histVars, cmdVars, ncalls>>

\* the statements run and the function returns
Returned == Left("returned")

\* the INSERT raises IntegrityError, the function rolls back and returns False
Conflicted == call.fn \in CatchesIntegrityError /\ Left("conflict")

\* a statement raises and the exception leaves the function
Raised == Left("raised")

\* an admin sends /broadcast: broadcast_message opens a connection (line 1041)
\* and keeps it over the sends it awaits
BroadcastOpened ==
  /\ call.stage # "open"
  /\ handler = "none"
  /\ handler' = "broadcast"
  /\ conns' = connect(conns)
  /\ gClass' = NoClass
  /\ gLoad' = NoProc
  /\ UNCHANGED <<storeVars, runVars, urlVars, histVars, cmdVars, call, ncalls>>

\* broadcast_message ends: the finally clause of line 1064
BroadcastClosed ==
  /\ call.stage # "open"
  /\ handler = "broadcast"
  /\ handler' = "none"
  /\ conns' = close(conns, "returned")
  /\ gClass' = NoClass
  /\ gLoad' = NoProc
  /\ UNCHANGED <<storeVars, runVars, urlVars, histVars, cmdVars, call, ncalls>>

\* ------------------------------------------------- admin-only commands
\* the ids of the ADMIN_IDS environment variable
ADMIN_IDS == {"a1"}

\* who may send a command to the bot: the users and the admins
Senders == Users \cup ADMIN_IDS

unauthorized_never(user_id) == FALSE

\* the test that opens manual_post, post_by_url, get_stats and broadcast_message
unauthorized(user_id) == user_id \notin ADMIN_IDS

\* the handler replies "Unauthorized." to the sender and returns
Refused(cmd, user_id) ==
  /\ CommandFrame
  /\ reply' = Reply(cmd, user_id, <<>>, "Unauthorized.")
  /\ UNCHANGED <<user_tracking, user_preferences, keyword_alerts>>

\* somebody sends /post
manual_post(user_id) ==
  IF unauthorized(user_id) THEN Refused("post", user_id) ELSE StartRun("manual")

\* somebody sends /url <asin>
post_by_url(user_id, asin) ==
  IF unauthorized(user_id) THEN Refused("url", user_id) ELSE UrlStart(asin)

\* somebody sends /broadcast <message>
broadcast_message(user_id) ==
  IF unauthorized(user_id) THEN Refused("broadcast", user_id) ELSE BroadcastOpened

\* an admin's /stats: get_stats opens a connection (line 978), reads the
\* counts and keeps the connection over the reply it awaits
StatsOpened ==
  /\ call.stage # "open"
  /\ handler = "none"
  /\ handler' = "stats"
  /\ conns' = connect(conns)
  /\ gClass' = NoClass
  /\ gLoad' = NoProc
  /\ UNCHANGED <<storeVars, runVars, urlVars, histVars, cmdVars, call, ncalls>>

\* get_stats ends: the finally clause of line 1026
StatsClosed ==
  /\ call.stage # "open"
  /\ handler = "stats"
  /\ handler' = "none"
  /\ conns' = close(conns, "returned")
  /\ gClass' = NoClass
  /\ gLoad' = NoProc
  /\ UNCHANGED <<storeVars, runVars, urlVars, histVars, cmdVars, call, ncalls>>

\* somebody sends /stats
get_stats(user_id) ==
  IF unauthorized(user_id) THEN Refused("stats", user_id) ELSE StatsOpened

\* ----------------------------------------------------- /mydeals (my_deals)
\* line 654
per_page == 5

\* the items of the marketplace users track in SpecPaging, in the order in
\* which their rows were inserted
Catalogue == <<"B1", "B2", "B3", "B4", "B5", "B6", "B7", "B8", "B9", "B10", "B11", "B12">>

\* SELECT asin FROM user_tracking WHERE user_id = %s: the user's rows, in
\* the order of the table
SelectTracked(rows, user_id) ==
  LET mine == {i \in 1..Len(Catalogue) : <<user_id, Catalogue[i]>> \in rows}
  IN [k \in 1..Cardinality(mine) |->
        Catalogue[CHOOSE i \in mine : Cardinality({j \in mine : j <= i}) = k]]

\* str() of a number that is not negative
RECURSIVE str(_)
str(n) ==
  LET d == <<"0", "1", "2", "3", "4", "5", "6", "7", "8", "9">>
  IN IF n < 10 THEN <<d[n + 1]>> ELSE str(n \div 10) \o <<d[(n % 10) + 1]>>

\* what the callback data of the page buttons start with (lines 693, 695, 1110)
PagePrefix == <<"m", "y", "d", "e", "a", "l", "s", "_", "p", "a", "g", "e", "_">>

\* what a press of a page button carries after the prefix: the numbers the
\* bot wrote on its buttons, and texts of older or foreign buttons
PageTexts ==
  {<<"0">>, <<"1">>, <<"2">>, <<"3">>, <<"4">>, <<"0", "2">>, <<>>, <<"x">>}

\* what a call of my_deals showed the user: the answer or header text, the
\* items sent with their Untrack button, the page buttons under them, and
\* what ended the call early
Listing(user_id, data, text, page, items, nav, raised) ==
  [cmd |-> "mydeals", user |-> user_id, args |-> data, text |-> text, shown |-> page,
   items |-> items, nav |-> nav, raised |-> raised]

\* my_deals from its SELECT on (lines 640-701), for a command (query FALSE)
\* or a press of a page button carrying data, on the rows the SELECT
\* returned, when the first sends awaited return and the next one raises
my_deals(query, data, rows, sends, user_id) ==
  LET \* re.match(r'^mydeals_page_(\d+)$', query.data) of line 631
      long == Len(data) > Len(PagePrefix)
      digits == IF long THEN SubSeq(data, Len(PagePrefix) + 1, Len(data)) ELSE <<>>
      match == /\ long
               /\ SubSeq(data, 1, Len(PagePrefix)) = PagePrefix
               /\ \A i \in 1..Len(digits) : digits[i] \in DOMAIN Digit
      page == IF query /\ match THEN int(digits).value ELSE 1
      start == (page - 1) * per_page
      total_pages == (Len(rows) + per_page - 1) \div per_page
      \* rows[start:start + per_page]: a negative index counts from the end,
      \* and both are clamped to the list
      norm(i) == IF i < 0 THEN Max(i + Len(rows), 0) ELSE IF i > Len(rows) THEN Len(rows) ELSE i
      page_data == SubSeq(rows, norm(start) + 1, norm(start + per_page))
      nav_buttons == (IF page > 1 THEN <<PagePrefix \o str(page - 1)>> ELSE <<>>)
                     \o (IF page < total_pages THEN <<PagePrefix \o str(page + 1)>> ELSE <<>>)
  IN IF rows = <<>>
     THEN Listing(user_id, data, "You are not tracking any deals.", 0, <<>>, <<>>, "none")
     ELSE IF page_data = <<>>
     THEN Listing(user_id, data, "No deals found on page", page, <<>>, <<>>, "none")
     \* line 666: the name message is bound nowhere, the command path raises
     ELSE IF ~query THEN Listing(user_id, data, "none", 0, <<>>, <<>>, "NameError")
     ELSE IF sends - 1 < Len(page_data)
     THEN Listing(user_id, data, IF sends = 0 THEN "none" ELSE "Here is Page", page,
                  SubSeq(page_data, 1, sends - 1), <<>>, "send")
     ELSE IF nav_buttons # <<>> /\ sends - 1 = Len(page_data)
     THEN Listing(user_id, data, "Here is Page", page, page_data, <<>>, "send")
     ELSE Listing(user_id, data, "Here is Page", page, page_data, nav_buttons, "none")

\* a user sends /mydeals: my_deals to its end
MyDealsCommand(user_id, sends) ==
  /\ CommandFrame
  /\ reply' = my_deals(FALSE, <<>>, SelectTracked(user_tracking, user_id), sends, user_id)
  /\ UNCHANGED <<user_tracking, user_preferences, keyword_alerts>>

\* a user presses a page button and query.answer raises: my_deals ends
MyDealsUnanswered(user_id, text) ==
  /\ CommandFrame
  /\ reply' = Listing(user_id, PagePrefix \o text, "none", 0, <<>>, <<>>, "answer")
  /\ UNCHANGED <<user_tracking, user_preferences, keyword_alerts>>

\* a user presses a page button and query.answer returns: my_deals to its end
MyDealsPressed(user_id, text, sends) ==
  /\ CommandFrame
  /\ reply' = my_deals(TRUE, PagePrefix \o text, SelectTracked(user_tracking, user_id),
                       sends, user_id)
  /\ UNCHANGED <<user_tracking, user_preferences, keyword_alerts>>

\* ------------------------------------------------------- specifications
RunNext ==
  \E r \in Runs :
    \/ StartRun(r)
    \/ FetchFailed(r)
    \/ \E page \in Pages : Scraped(r, page)
    \/ ChannelFailed(r)
    \/ ChannelSent(r)
    \/ UserSendFailed(r)
    \/ UserSent(r)
    \/ Slept(r)

UrlNext ==
  \/ \E asin \in HotItems : UrlStart(asin)
  \/ UrlScrapeFailed
  \/ \E discount \in PageDiscounts, price \in UrlPrices : UrlScraped(discount, price)
  \/ UrlChannelFailed
  \/ UrlChannelSent
  \/ UrlReplyFailed
  \/ UrlReplied

Next == RunNext \/ UrlNext

\* runs of post_deals and /url commands, overlapping, on pages of one item
Spec == Init /\ [][Next]_vars

\* runs of post_deals only: no /url command
SpecRuns == Init /\ [][RunNext]_vars

\* /url commands only: no run of post_deals
SpecUrl == Init /\ [][UrlNext]_vars

\* The first scheduled run after start-up, on a page of up to MaxBatch cards
\* of both items, with store calls that may raise.
BatchInit ==
  InitRegistry(SUBSET (Users \X HotItems),
               [PrefUsers -> BatchMins] \cup {[u \in Users |-> IF u \in AlertUsers THEN 30 ELSE 20]},
               SUBSET (AlertUsers \X KeywordValues))

\* the first firing of the job added on line 1115
FirstRun == runs = 0 /\ StartRun("sched")

BatchNext ==
  \/ FirstRun
  \/ FetchFailed("sched")
  \/ \E page \in BatchPages : Scraped("sched", page)
  \/ \E page \in BatchPages, bad \in 1..MaxBatch, op \in StoreOps :
       StoreFailed("sched", page, bad, op)
  \/ ChannelFailed("sched")
  \/ ChannelSent("sched")
  \/ UserSendFailed("sched")
  \/ UserSent("sched")
  \/ Slept("sched")

SpecBatch == BatchInit /\ [][BatchNext]_vars

\* the pages of SpecFair: cards of both items, one of them without a title
FairCards ==
  {Card("B1", 20, Present("B1"), 0), Card("B1", 35, Present("B1"), 0),
   Card("B2", 20, Present("B2"), 0), Card("B2", 20, Absent, 0)}
FairPages == UNION {[1..n -> FairCards] : n \in 0..MaxBatch}

\* both users track the hot item and the alert user has every keyword
FairInit ==
  InitRegistry({Users \X HotItems}, {[u \in PrefUsers |-> 20]}, {AlertUsers \X KeywordValues})

\* Every call a run awaits resolves or raises: the page load and the wait
\* for the cards have timeouts (lines 340-341), the requests to Telegram
\* have those of lines 1088-1089, asyncio.sleep(2) returns.
FairProgress ==
  \/ FetchFailed("sched")
  \/ pc["sched"] = "fetch" /\ \E page \in FairPages : Scraped("sched", page)
  \/ pc["sched"] = "fetch" /\ \E page \in FairPages, bad \in 1..MaxBatch, op \in StoreOps :
                                StoreFailed("sched", page, bad, op)
  \/ ChannelFailed("sched")
  \/ ChannelSent("sched")
  \/ UserSendFailed("sched")
  \/ UserSent("sched")
  \/ Slept("sched")

FairNext == FirstRun \/ FairProgress

\* The first scheduled run alone, with page loads, store calls and sends
\* that may fail, every awaited call resolving or raising in the end.
SpecFair == FairInit /\ [][FairNext]_vars /\ WF_vars(FairProgress)

\* Scheduled runs, one after the other, on pages whose cards show a price.
PriceInit == InitRegistry({{<<"u1", "B1">>}}, [PrefUsers -> MinDiscountValues], {{}})

PriceNext ==
  \/ StartRun("sched")
  \/ FetchFailed("sched")
  \/ \E page \in PricePages : Scraped("sched", page)
  \/ ChannelFailed("sched")
  \/ ChannelSent("sched")
  \/ UserSendFailed("sched")
  \/ UserSent("sched")
  \/ Slept("sched")

SpecPrice == PriceInit /\ [][PriceNext]_vars

\* The first scheduled run alone, on a page of several cards of one item
\* whose price spans carry text.
BadgeNext ==
  \/ FirstRun
  \/ FetchFailed("sched")
  \/ \E page \in BadgePages : Scraped("sched", page)
  \/ ChannelFailed("sched")
  \/ ChannelSent("sched")
  \/ UserSendFailed("sched")
  \/ UserSent("sched")
  \/ Slept("sched")

SpecBadge == PriceInit /\ [][BadgeNext]_vars

\* The first scheduled run alone, on a page whose card carries any title.
TitleNext ==
  \/ FirstRun
  \/ FetchFailed("sched")
  \/ \E page \in TitlePages : Scraped("sched", page)
  \/ ChannelFailed("sched")
  \/ ChannelSent("sched")
  \/ UserSendFailed("sched")
  \/ UserSent("sched")
  \/ Slept("sched")

SpecTitles == PriceInit /\ [][TitleNext]_vars

\* The registry commands of two users on a fresh database, no run in progress.
RegistryInit == InitRegistry({{}}, {EmptyRows}, {{}})

RegistryNext ==
  \/ \E u \in Users, x \in Items : TrackPressed(u, x)
  \/ \E u \in Users, x \in Items : UntrackUnanswered(u, x)
  \/ \E u \in Users, x \in Items : UntrackPressed(u, x)
  \/ \E u \in Users, args \in DiscountArgs : SetDiscount(u, args)
  \/ \E u \in Users, args \in KeywordArgs : AlertMe(u, args)
  \/ \E u \in Users, args \in KeywordArgs : RemoveAlert(u, args)

SpecRegistry == RegistryInit /\ [][RegistryNext]_vars

\* The store calls of the process, one after the other, while a /broadcast
\* may hold a connection of its own.
StoreNext ==
  \/ \E fn \in StoreFunctions : Called(fn)
  \/ \E fn \in StoreFunctions : ConnectFailed(fn)
  \/ Returned
  \/ Conflicted
  \/ Raised
  \/ BroadcastOpened
  \/ BroadcastClosed

SpecStore == RegistryInit /\ [][StoreNext]_vars

\* The admin-only commands, sent by admins and by users who are not, with
\* the runs of post_deals and the /url posts the admins' commands start.
AdminNext ==
  \/ \E user_id \in Senders : manual_post(user_id)
  \/ \E user_id \in Senders, asin \in HotItems : post_by_url(user_id, asin)
  \/ \E user_id \in Senders : broadcast_message(user_id)
  \/ \E user_id \in Senders : get_stats(user_id)
  \/ FetchFailed("manual")
  \/ \E page \in Pages : Scraped("manual", page)
  \/ ChannelFailed("manual")
  \/ ChannelSent("manual")
  \/ UserSendFailed("manual")
  \/ UserSent("manual")
  \/ Slept("manual")
  \/ UrlScrapeFailed
  \/ \E discount \in PageDiscounts, price \in UrlPrices : UrlScraped(discount, price)
  \/ UrlChannelFailed
  \/ UrlChannelSent
  \/ UrlReplyFailed
  \/ UrlReplied
  \/ BroadcastClosed
  \/ StatsClosed

SpecAdmin == PriceInit /\ [][AdminNext]_vars

\* /mydeals and its page buttons, for two users who track up to MaxTracked
\* items each.
PagingInit ==
  LET Tracking(n1, n2) ==
        {<<"u1", Catalogue[i]>> : i \in 1..n1}
          \cup {<<"u2", Catalogue[Len(Catalogue) + 1 - i]>> : i \in 1..n2}
  IN InitRegistry({Tracking(n1, n2) : n1 \in 0..MaxTracked, n2 \in 0..MaxOthers},
                  {EmptyRows}, {{}})

\* of the sends a call awaits, the first `sends` return and the next raises
PagingNext ==
  \/ \E u \in Users, sends \in 0..(per_page + 2) : MyDealsCommand(u, sends)
  \/ \E u \in Users, text \in PageTexts : MyDealsUnanswered(u, text)
  \/ \E u \in Users, text \in PageTexts, sends \in 0..(per_page + 2) : MyDealsPressed(u, text, sends)

SpecPaging == PagingInit /\ [][PagingNext]_vars

\* ----------------------------------------------------------------- claims
Finished(p) == IF p = "url" THEN upc = "idle" ELSE pc[p] = "idle"
Notified(asin) == {u \in Users : has_user_been_notified(user_notified, u, asin)}

\* C1: a user receives at most one personal notification about an item
\* between two consecutive insert-or-improvement events of that item.
C1_AtMostOncePerImprovement ==
  \A u \in Users, x \in Items : gSince[u][x] <= 1

\* C2: replaying an observation (same item, same discount) in a later run of
\* post_deals is Unchanged and fans nothing out: over all runs there is at
\* most one channel post and at most one personal message per user for it.
C2_ReplayIdempotent ==
  \A x \in Items, d \in DiscountValues :
    /\ gChan[x][d] <= 1
    /\ \A u \in Users : gUser[u][x][d] <= 1

C2_Witness ==
  \E x \in Items, u \in Users :
    /\ gClass[x].class = "Unchanged"
    /\ gClass[x].discount = deals[x]
    /\ gChan[x][deals[x]] = 1
    /\ gUser[u][x][deals[x]] = 1

\* C3: once the run or /url command that recorded a strict improvement of an
\* item has finished, no record from before the improvement is left, and each
\* user notified before it who still qualifies got exactly one new message.
C3_Rearmed ==
  \A x \in Items :
    gImpBy[x] # NoProc /\ Finished(gImpBy[x]) =>
      /\ gPre[x] = {}
      /\ \A u \in gOwed[x] : gSince[u][x] = 1

\* C4: is_new_or_updated_deal answers New on the first observation of an item
\* and only then, Improved exactly when the discount is strictly above every
\* discount recorded before, and Unchanged otherwise.
C4_Classification ==
  \A x \in Items :
    /\ gNew[x] = IF gRecorded[x] > 0 THEN 1 ELSE 0
    /\ gClass[x].class # "none" =>
         gClass[x].class = IF gClass[x].first THEN "New"
                           ELSE IF gClass[x].strict THEN "Improved"
                           ELSE "Unchanged"

C4_Witness ==
  \E x \in Items : gClass[x].class = "Improved" /\ gNew[x] = 1

\* C5: the stored discount of an item is the highest discount ever recorded
\* for it, whichever runs and commands recorded them.
C5_BestDiscount ==
  \A x \in Items :
    /\ x \in DOMAIN deals <=> gRecorded[x] > 0
    /\ x \in DOMAIN deals => deals[x] = gRecorded[x]

C5_Witness ==
  \E r \in Runs :
    /\ pc[r] \in {"chan", "track", "cat", "title", "sleep"}
    /\ Head(queue[r]).discount_val < deals[Head(queue[r]).asin]

\* C6: an item is classified New at most once, also when two runs observe
\* it while both are in progress.
C6_NewOnce ==
  \A x \in Items : gNew[x] <= 1

C6_Witness ==
  /\ \A r \in Runs : pc[r] \in {"chan", "track", "cat", "title", "sleep"}
  /\ Head(queue["sched"]).asin = Head(queue["manual"]).asin

\* C7: no operation can observe an item whose discount was inserted or
\* improved while records from before that event still exist.
C7_AtomicClear ==
  \A x \in Items : gPre[x] = {}

\* C8: a record (u, x) exists only if the last personal message to u about x
\* carried the stored discount of x.
C8_RecordCurrent ==
  \A u \in Users, x \in Items :
    has_user_been_notified(user_notified, u, x) =>
      x \in DOMAIN deals /\ gLast[u][x] = deals[x]

\* C9: when the channel send of a deal failed, its qualifying recipients
\* without a record were still sent their personal message in that run.
C9_ChannelFailureNonFatal ==
  \A r \in Runs :
    pc[r] = "sleep" /\ gFail[r] = "channel" =>
      \A u \in Users :
        Qualifies(u, Head(queue[r]).asin, Head(queue[r]).discount_val) =>
          has_user_been_notified(user_notified, u, Head(queue[r]).asin)

Current(r) == Head(queue[r])
\* the recipient loops of the current deal of r ran to their end
Completed(r) == pc[r] = "sleep" /\ gFail[r] = "none"

\* C11: when a personal send of a deal raised, every other user who
\* qualifies for that deal still got the personal message in that fan-out:
\* at most the user whose send failed is left without a record.
C11_SendFailureIsolated ==
  \A r \in Runs :
    pc[r] = "sleep" /\ gFail[r] = "user" =>
      Cardinality({u \in Users :
                     /\ Routes(u, Current(r)) # {}
                     /\ ~has_user_been_notified(user_notified, u, Current(r).asin)}) <= 1

\* C12: when a store call raised while one card of a page was reconciled,
\* every other card of the page that passes the validator was still
\* reconciled, and no deal classified New or Improved was left without its
\* channel send.
C12_StoreFailureIsolated ==
  \A r \in Runs :
    pc[r] = "idle" /\ gFail[r] = "store" =>
      /\ \A i \in 1..Len(gPage[r]) :
           i # gBad[r] /\ accepted(gPage[r][i]) =>
             gRecorded[gPage[r][i].asin] >= gPage[r][i].discount
      /\ gOwing[r] = <<>>

\* C13: a step in which the page load of a run raises changes no table,
\* sends nothing, and ends the run with an empty list of deals.
C13_FetchFailureNoEffect ==
  [][\A r \in Runs :
       gLoad' = r =>
         /\ UNCHANGED <<storeVars, gChan, gUser, gSince, gRecorded>>
         /\ queue'[r] = <<>>
         /\ pc'[r] = "idle"]_vars

C13_Witness ==
  /\ gLoad \in Runs
  /\ deals # EmptyRows
  /\ user_notified # {}

\* C14: when a run has ended, the channel send of every deal it classified
\* New or Improved was attempted, once each.
C14_OneBroadcastEach ==
  \A r \in Runs : pc[r] = "idle" => gOwing[r] = <<>>

\* C15: the tracking loop sends the tracked-item message to a user exactly
\* when the user tracks the item, the deal's discount is at least the user's
\* minimum (5 without a preference) and the user has no record for the item.
C15_MinDiscountGate ==
  \A r \in Runs :
    /\ pc[r] = "track" =>
         /\ <<cur[r][1], Current(r).asin>> \in user_tracking
         /\ Current(r).discount_val >=
              (IF cur[r][1] \in DOMAIN user_preferences
               THEN user_preferences[cur[r][1]] ELSE 5)
         /\ <<cur[r][1], Current(r).asin>> \notin user_notified
    /\ pc[r] \in {"cat", "title"} \/ Completed(r) =>
         \A u \in Users :
           /\ <<u, Current(r).asin>> \in user_tracking
           /\ Current(r).discount_val >=
                (IF u \in DOMAIN user_preferences THEN user_preferences[u] ELSE 5)
           => <<u, Current(r).asin>> \in user_notified

C15_Witness ==
  \E r \in Runs, u, v \in Users :
    /\ Completed(r)
    /\ {<<u, Current(r).asin>>, <<v, Current(r).asin>>} \subseteq user_tracking
    /\ v \in DOMAIN user_preferences
    /\ user_preferences[v] > Current(r).discount_val
    /\ <<v, Current(r).asin>> \notin user_notified
    /\ u \in DOMAIN user_preferences
    /\ user_preferences[u] = Current(r).discount_val
    /\ gUser[u][Current(r).asin][Current(r).discount_val] = 1

C18_ZeroDiscountInert ==
  /\ upc = "reply" => udeal.discount_val > 0
  /\ \A r \in Runs : \A i \in 1..Len(queue[r]) : queue[r][i].discount_val > 0

\* C19: the badge of a deal with a known price compares that price with the
\* newest price point recorded before the observation: increased from it
\* when higher, dropped from it when lower (unless the lowest-price badge
\* takes over).
C19_BadgeFromPrevious ==
  \A r \in Runs :
    pc[r] = "chan" /\ Current(r).current_price > 0 /\ Current(r).gPrior > 0 =>
      /\ Current(r).current_price > Current(r).gPrior =>
           badge[r] = [kind |-> "increased", from |-> Current(r).gPrior]
      /\ Current(r).current_price < Current(r).gPrior /\ badge[r].kind # "lowest" =>
           badge[r] = [kind |-> "dropped", from |-> Current(r).gPrior]

\* C20: no deal reaches the fan-out with a title that is empty.
C20_UntitledRejected ==
  \A r \in Runs : \A i \in 1..Len(queue[r]) : queue[r][i].title # <<>>

\* C21: a price point is appended for an item only in a step in which the
\* item was classified New or Improved.
C21_PointAfterImprovement ==
  [][\A x \in Items :
       price_history'[x] # price_history[x] => gClass'[x].class \in {"New", "Improved"}]_vars

\* C25: a step whose observations all carry a discount at or below the best
\* one recorded classifies them Unchanged and leaves the deals table and
\* every notification record as they were.
C25_UnchangedFrame ==
  [][(\E x \in Items : gClass'[x].class # "none") /\ gRecorded' = gRecorded =>
       /\ \A x \in Items : gClass'[x].class \in {"none", "Unchanged"}
       /\ deals' = deals
       /\ user_notified' = user_notified]_vars

C25_Witness ==
  \E x \in DOMAIN deals :
    /\ gClass[x].class = "Unchanged"
    /\ gClass[x].discount < deals[x]
    /\ Notified(x) # {}

C27_PointsPositive ==
  \A x \in Items : \A i \in 1..Len(price_history[x]) : price_history[x][i] > 0

\* a deal whose price text is no number is queued and no point was stored
C27_Witness ==
  /\ pc["sched"] = "chan"
  /\ Current("sched").current_price = 0
  /\ price_history[Current("sched").asin] = <<>>

\* the categories of the table one of whose keywords occurs in the
\* lower-cased title
Matching(title) ==
  {i \in 1..Len(CATEGORIES) :
     \E k \in 1..Len(CATEGORIES[i].keywords) :
       IsSubstring(CATEGORIES[i].keywords[k], Lower(title))}

\* C22: the category of every deal is the first category of the table with
\* a keyword that occurs in the lower-cased title, and Deals when no
\* category has one; computing it again from the title gives the same.
C22_FirstCategory ==
  \A r \in Runs : \A n \in 1..Len(queue[r]) :
    LET deal == queue[r][n]
        hits == Matching(deal.title)
    IN /\ hits = {} => deal.category = DefaultCategory
       /\ hits # {} =>
            \E i \in hits : /\ \A j \in hits : i <= j
                            /\ deal.category = CATEGORIES[i].category
       /\ deal.category = get_category(deal.title)

\* a deal whose title has keywords of several categories
C22_Witness ==
  /\ pc["sched"] = "chan"
  /\ Cardinality(Matching(Current("sched").title)) > 1
  /\ Current("sched").category # DefaultCategory

\* the step handles the command cmd of user u
Handles(cmd, u) == cmds' # cmds /\ reply'.cmd = cmd /\ reply'.user = u

\* C23: pressing Track for a pair already tracked answers Already tracking
\* and changes no table; pressing it for a new pair adds that pair only;
\* an answered Untrack removes that pair only.  The other tables are never
\* touched.
C23_TrackIdempotent ==
  [][\A u \in Users, x \in Items :
       /\ (Handles("track", u) /\ reply'.args = TrackData(x)) =>
            /\ <<u, x>> \in user_tracking'
            /\ user_tracking' \ {<<u, x>>} = user_tracking \ {<<u, x>>}
            /\ <<u, x>> \in user_tracking => reply'.text = "Already tracking."
            /\ <<u, x>> \notin user_tracking => reply'.text = "Deal tracked!"
            /\ UNCHANGED <<user_preferences, keyword_alerts, deals, user_notified>>
       /\ (Handles("untrack", u) /\ reply'.args = UntrackData(x) /\ reply'.text # "none") =>
            /\ user_tracking' = user_tracking \ {<<u, x>>}
            /\ UNCHANGED <<user_preferences, keyword_alerts, deals, user_notified>>]_vars

\* a repeated Track while another user tracks the same item
C23_Witness ==
  /\ reply.cmd = "track"
  /\ reply.text = "Already tracking."
  /\ \E row \in user_tracking : row[1] # reply.user /\ TrackData(row[2]) = reply.args

\* the decimal numeral of n in 0..99, and the texts that denote n
Numeral(n) ==
  LET d == <<"0", "1", "2", "3", "4", "5", "6", "7", "8", "9">>
  IN IF n < 10 THEN <<d[n + 1]>> ELSE <<d[(n \div 10) + 1], d[(n % 10) + 1]>>
Denotes(text, n) == \E z \in 0..Len(text) : text = [i \in 1..z |-> "0"] \o Numeral(n)

\* C28: /setdiscount without argument shows 5 to a user with no stored
\* preference; every stored preference is in 1..99; an argument that
\* denotes no number of 1..99 is answered Invalid format and changes no
\* preference, one that denotes such a number stores it for that user only.
C28_MinDiscountRange ==
  [][/\ \A u \in DOMAIN user_preferences' : user_preferences'[u] \in 1..99
     /\ \A u \in Users :
          Handles("setdiscount", u) =>
            /\ (reply'.args = <<>> /\ u \notin DOMAIN user_preferences) => reply'.shown = 5
            /\ (reply'.args # <<>> /\ ~\E n \in 1..99 : Denotes(reply'.args[1], n)) =>
                 /\ user_preferences' = user_preferences
                 /\ reply'.text = "Invalid format."
            /\ \A n \in 1..99 :
                 (reply'.args # <<>> /\ Denotes(reply'.args[1], n)) =>
                   user_preferences' = Put(user_preferences, u, n)]_vars

\* an invalid argument from a user whose preference is stored
C28_Witness ==
  /\ reply.cmd = "setdiscount"
  /\ reply.text = "Invalid format."
  /\ reply.user \in DOMAIN user_preferences

\* C29: every stored keyword is lower-case and no two rows of a user differ
\* only in case; /alertme with a keyword stored already in whatever case
\* answers already subscribed and changes nothing, otherwise it stores the
\* lower-cased keyword; /removealert deletes the lower-cased keyword's row
\* and reports success exactly when the row was there.
C29_KeywordsLowerUnique ==
  [][/\ \A row \in keyword_alerts' : row[2] = Lower(row[2])
     /\ \A u \in Users :
          LET row == <<u, Lower(join(reply'.args))>>
          IN /\ (Handles("alertme", u) /\ reply'.args # <<>>) =>
                  /\ row \in keyword_alerts =>
                       /\ keyword_alerts' = keyword_alerts
                       /\ reply'.text = "You are already subscribed"
                  /\ row \notin keyword_alerts =>
                       /\ keyword_alerts' = keyword_alerts \cup {row}
                       /\ reply'.text = "You will now receive alerts"
             /\ (Handles("removealert", u) /\ reply'.args # <<>>) =>
                  /\ keyword_alerts' = keyword_alerts \ {row}
                  /\ reply'.text = "have been removed" <=> row \in keyword_alerts]_vars

\* a keyword added again in another case
C29_Witness ==
  /\ reply.cmd = "alertme"
  /\ reply.text = "You are already subscribed"
  /\ reply.args # <<>>
  /\ join(reply.args) # Lower(join(reply.args))

\* C30: a store call holds one connection more than were open when it was
\* made while its statements run, and when it returns, returns after a
\* caught conflict, or raises, as many connections are open as before the
\* call; a call whose connection attempt fails opens none.
C30_ConnectionReleased ==
  [][(call' # call \/ ncalls' # ncalls) =>
       /\ call'.stage = "open" => conns' = call'.gOpenBefore + 1
       /\ call'.stage \in {"returned", "conflict", "raised", "unconnected"} =>
            conns' = call'.gOpenBefore]_vars

\* a statement of a store call raised while /broadcast held its connection
C30_Witness ==
  /\ call.stage = "raised"
  /\ handler = "broadcast"
  /\ call.gOpenBefore = 1
  /\ conns = 1

\* the moves of a run from phase to phase: Idle to Fetching; Fetching to
\* Notifying through the step that validates and reconciles the page, or
\* back to Idle; inside Notifying from the channel post through the three
\* recipient loops to the pause; from the pause to the next deal or to Idle
PhaseMoves ==
  {<<"idle", "fetch">>, <<"fetch", "chan">>, <<"fetch", "idle">>,
   <<"chan", "track">>, <<"chan", "cat">>, <<"chan", "title">>, <<"chan", "sleep">>,
   <<"track", "track">>, <<"track", "cat">>, <<"track", "title">>, <<"track", "sleep">>,
   <<"cat", "cat">>, <<"cat", "title">>, <<"cat", "sleep">>,
   <<"title", "title">>, <<"title", "sleep">>,
   <<"sleep", "chan">>, <<"sleep", "idle">>}

C31_FailedPostLeavesDeal ==
  [][(upc = "chan" /\ upc' = "idle") =>
       IF udeal.gWas = 0 THEN udeal.asin \notin DOMAIN deals'
       ELSE deals'[udeal.asin] = udeal.gWas]_vars

\* a step in which a handler received an admin-only command from user_id
AdminCommand(user_id) ==
  \/ manual_post(user_id)
  \/ \E asin \in HotItems : post_by_url(user_id, asin)
  \/ broadcast_message(user_id)
  \/ get_stats(user_id)

\* C32: a /post, /url, /broadcast or /stats command of a user who is not in
\* ADMIN_IDS starts no run of post_deals and no /url scrape, changes no table,
\* opens no connection, posts nothing to the channel and sends nothing to
\* any user but the "Unauthorized." answer to the sender, and the handler is
\* over with that answer.
C32_NonAdminEffectFree ==
  [][\A user_id \in Senders \ ADMIN_IDS :
       AdminCommand(user_id) =>
         /\ UNCHANGED <<storeVars, runVars, urlVars, handler, histVars, connVars>>
         /\ reply'.user = user_id
         /\ reply'.text = "Unauthorized."]_vars

\* a user who is not an admin sent /post while an item was tracked and was refused
C32_Witness ==
  /\ reply.cmd = "post"
  /\ reply.user \in Senders \ ADMIN_IDS
  /\ reply.text = "Unauthorized."
  /\ user_tracking # {}

\* C33: a deal whose price is unknown (current_price 0) reaches the channel
\* post without a price badge, and the dropped-price badge is carried only by
\* a deal whose price is known and is below the price point the badge names.
C33_NoBadgeUnknownPrice ==
  \A r \in Runs :
    pc[r] = "chan" =>
      /\ Current(r).current_price = 0 => badge[r] = NoBadge
      /\ badge[r].kind = "dropped" =>
           /\ Current(r).current_price > 0
           /\ Current(r).current_price < badge[r].from

\* the number of pages of n items: the least count of pages of per_page
\* items that holds them all
PagesOf(n) == CHOOSE t \in 0..n : per_page * t >= n /\ per_page * (t - 1) < n

\* what the call answered last should have sent for page p of n tracked items
ShowsPage(p, n) ==
  LET rows == SelectTracked(user_tracking, reply.user)
      last == IF per_page * p < n THEN per_page * p ELSE n
  IN /\ reply.items = [i \in 1..(last - (p - 1) * per_page) |-> rows[(p - 1) * per_page + i]]
     /\ (\E i \in 1..Len(reply.nav) : reply.nav[i] = PagePrefix \o Numeral(p - 1)) <=> p > 1
     /\ (\E i \in 1..Len(reply.nav) : reply.nav[i] = PagePrefix \o Numeral(p + 1))
          <=> p < PagesOf(n)
     /\ Len(reply.nav) = (IF p > 1 THEN 1 ELSE 0) + (IF p < PagesOf(n) THEN 1 ELSE 0)

\* C34: a call of my_deals for a user who tracks n >= 1 items, entered by
\* the /mydeals command (page 1) or by a page button whose data names a page
\* p with 1 <= p <= ceil(n / 5), sends the tracked items at the positions
\* (p - 1) * 5 + 1 .. min(5 p, n) and no other, with a Prev button exactly
\* when p > 1 and a Next button exactly when p < ceil(n / 5), when no send
\* to the user raises.
C34_PageShown ==
  LET n == Len(SelectTracked(user_tracking, reply.user))
  IN reply.cmd = "mydeals" /\ reply.raised \notin {"send", "answer"} /\ n >= 1 =>
       /\ reply.args = <<>> => ShowsPage(1, n)
       /\ \A p \in 1..PagesOf(n) :
            (\E text \in PageTexts : reply.args = PagePrefix \o text /\ Denotes(text, p))
              => ShowsPage(p, n)

====
